---------------------------- MODULE Spec2Model ----------------------------
(***************************************************************************)
(* Model of the table operations of AudioProcessingTools:                  *)
(*   - filter_and_save_csv_by_score_and_duration (audioprocessing/         *)
(*     selection.py), the budget selector;                                 *)
(*   - join_csv_files_on_key (audioprocessing/io_utils.py), the inner join.*)
(* A delimited file is a header (sequence of column names) and a sequence  *)
(* of rows, each row a sequence of cell texts.  Cells are strings, numbers *)
(* only exist after float() has parsed a cell.                             *)
(***************************************************************************)
EXTENDS Integers, Sequences, FiniteSets, TLC

(***************************************************************************)
(* Bounds of the model.                                                    *)
(***************************************************************************)
MaxRows == 3
MaxBudget == 3

(***************************************************************************)
(* Python floats, as far as the selector uses them: finite values (here    *)
(* integers), the two infinities and nan.                                  *)
(***************************************************************************)
Fin(n) == [kind |-> "fin", v |-> n]
PInf == [kind |-> "pinf", v |-> 0]
NInf == [kind |-> "ninf", v |-> 0]
NaN == [kind |-> "nan", v |-> 0]

\* a < b on floats: every comparison with nan is false
FloatLt(a, b) ==
  CASE a.kind = "nan" \/ b.kind = "nan" -> FALSE
    [] a.kind = "ninf" -> b.kind # "ninf"
    [] a.kind = "pinf" -> FALSE
    [] OTHER -> \/ b.kind = "pinf"
                \/ (b.kind = "fin" /\ a.v < b.v)

\* a <= b on floats
FloatLe(a, b) ==
  CASE a.kind = "nan" \/ b.kind = "nan" -> FALSE
    [] OTHER -> a = b \/ FloatLt(a, b)

\* a + b on floats: inf + -inf is nan, an infinity absorbs a finite value
FloatAdd(a, b) ==
  CASE a.kind = "nan" \/ b.kind = "nan" -> NaN
    [] a.kind = "fin" /\ b.kind = "fin" -> Fin(a.v + b.v)
    [] a.kind = "fin" -> b
    [] b.kind = "fin" -> a
    [] a.kind = b.kind -> a
    [] OTHER -> NaN

\* the cell texts float() accepts in this model, with their values
FloatLiterals ==
  ("0" :> Fin(0)) @@ ("1" :> Fin(1)) @@ ("2" :> Fin(2)) @@ ("3" :> Fin(3)) @@
  ("-1" :> Fin(0 - 1)) @@ ("inf" :> PInf) @@ ("-inf" :> NInf) @@ ("nan" :> NaN)

\* float(text): ok is FALSE where Python raises ValueError
ParseFloat(text) ==
  IF text \in DOMAIN FloatLiterals
  THEN [ok |-> TRUE, val |-> FloatLiterals[text]]
  ELSE [ok |-> FALSE, val |-> NaN]

(***************************************************************************)
(* csv.DictReader / csv.DictWriter.                                        *)
(***************************************************************************)
Range(s) == {s[i] : i \in 1..Len(s)}

IndexOf(s, x) == CHOOSE i \in 1..Len(s) : s[i] = x /\ \A j \in 1..(i - 1) : s[j] # x

\* DictReader: a row of cells becomes a mapping from column name to cell
DictRow(fieldnames, cells) ==
  [c \in Range(fieldnames) |-> cells[IndexOf(fieldnames, c)]]

\* DictWriter: a mapping is written as its values in fieldnames order
ListRow(fieldnames, row) ==
  [j \in 1..Len(fieldnames) |-> row[fieldnames[j]]]

NoFile == [exists |-> FALSE, header |-> <<>>, rows |-> <<>>]

(***************************************************************************)
(* Inputs of the selector.                                                 *)
(***************************************************************************)
ScoreCells == {"1", "2", "inf", "Error"}
DurationCells == {"1", "2", "Error"}
RowKeys == <<"r1", "r2", "r3", "r4", "r5">>

Headers ==
  { <<"K", "MOS", "Duration">>, <<"K", "MOS">>, <<"Duration", "K">>, <<>> }

CellsFor(column, i) ==
  CASE column = "K" -> {RowKeys[i]}
    [] column = "MOS" -> ScoreCells
    [] OTHER -> DurationCells

RECURSIVE CellRows(_, _, _)
\* the rows of cells that may stand at line i under the first n header columns
CellRows(header, n, i) ==
  IF n = 0 THEN {<<>>}
  ELSE {Append(r, c) : r \in CellRows(header, n - 1, i), c \in CellsFor(header[n], i)}

RECURSIVE TablesOfLen(_, _)
TablesOfLen(header, n) ==
  IF n = 0 THEN {<<>>}
  ELSE {Append(t, r) : t \in TablesOfLen(header, n - 1),
                       r \in CellRows(header, Len(header), n)}

\* a file without header is an empty file
InputFiles ==
  UNION { { [exists |-> TRUE, header |-> h, rows |-> t] :
              t \in UNION { TablesOfLen(h, n) : n \in 0..(IF h = <<>> THEN 0 ELSE MaxRows) } }
          : h \in Headers }

VARIABLES
  input_csv,          \* the file at input_csv_path
  score_column_name, duration_column_name, size_threshold_ms, sort_descending,
  pc,                 \* position in filter_and_save_csv_by_score_and_duration
  fieldnames,         \* reader.fieldnames
  sorted_rows,        \* sorted(all_rows, key=sort_key, reverse=sort_descending)
  idx,                \* position of the for loop in sorted_rows
  selected_rows, total_duration_ms,
  output_csv,         \* the file at output_csv_path
  outcome             \* "running", "returned" or "raised"

selVars ==
  <<input_csv, score_column_name, duration_column_name, size_threshold_ms,
    sort_descending, pc, fieldnames, sorted_rows, idx, selected_rows,
    total_duration_ms, output_csv, outcome>>

VARIABLES
  csv1, csv2,         \* the files at csv1_path and csv2_path
  key_column,
  jpc,                \* position in join_csv_files_on_key
  header1, data1, key1_idx,
  header2, data2, key2_idx,
  output_header,
  data2_dict,         \* key value -> the other values of the first csv2 row with it
  i2,                 \* position of the for loop in data2
  resulting_data, matches_found,
  i1,                 \* position of the for loop in data1
  joined_csv,         \* the file at output_csv_path
  join_result         \* "running", "True" or "False"

joinVars ==
  <<csv1, csv2, key_column, jpc, header1, data1, key1_idx, header2, data2,
    key2_idx, output_header, data2_dict, i2, resulting_data, matches_found,
    i1, joined_csv, join_result>>

VARIABLES
  ext_function,       \* "mos": calculate_mos_for_directory,
                      \* "similarity": calculate_similarity_for_directory
  input_kind,         \* what is at input_path: "dir", "file" or "missing"
  corpus_files,       \* the files below input_path
  audio_type,
  unreadable,         \* the files get_audio_duration raises on
  unscorable,         \* the files the scorer raises on
  epc,                \* position in the extractor
  glob_pattern,
  file_paths,
  scored,             \* the files the scorer was called on
  results,
  ext_output,         \* the file at output_file
  ext_outcome         \* "running", "returned" or the exception raised

extVars ==
  <<ext_function, input_kind, corpus_files, audio_type, unreadable, unscorable,
    epc, glob_pattern, file_paths, scored, results, ext_output, ext_outcome>>

extParams ==
  <<ext_function, input_kind, corpus_files, audio_type, unreadable, unscorable>>

VARIABLES
  speaker,            \* name of the speaker directory
  cloned_wav_filename,
  ref_dir,
  rpc,                \* position in the reference resolution
  sample_raw_name,
  ref_wav_path        \* the components joined by os.path.join

refVars ==
  <<speaker, cloned_wav_filename, ref_dir, rpc, sample_raw_name, ref_wav_path>>

VARIABLES
  data_kind,          \* what is at data_dir: "dir", "file" or "missing"
  tree,               \* the entries below data_dir: model -> speaker -> cloned files
  agpc,               \* position in calculate_similarity_for_speaker_directory_structure
  model_queue,        \* the entries of os.listdir(data_dir) not yet visited
  model_name,
  speaker_queue,      \* the entries of os.listdir(path_model_name) not yet visited
  speaker_name,
  probe_index,        \* position of the for loop in os.listdir(path_model_speaker)
  embedded,           \* the cloned files compute_similarity was called on
  opened_files,       \* the output files created or truncated by open(..., 'w')
  detail_rows,        \* the rows written by detailed_writer, behind the header
  log_warnings,       \* the cloned files logged as "Reference file not found"
  speaker_scores_for_stats, model_scores_for_stats,
  speaker_stats_rows, model_stats_rows,
  agg_outcome         \* "running", "returned" or the exception raised

aggVars ==
  <<data_kind, tree, agpc, model_queue, model_name, speaker_queue, speaker_name,
    probe_index, embedded, opened_files, detail_rows, log_warnings,
    speaker_scores_for_stats, model_scores_for_stats, speaker_stats_rows,
    model_stats_rows, agg_outcome>>

aggParams == <<data_kind, tree>>

VARIABLES
  dictionary,         \* the dict to export, as the list of its items
  headers,            \* the headers argument, possibly None
  xpc,                \* position in export_dict_to_csv and its reading back
  csv_file,           \* the lines of the file at csv_path, without line ends
  read_headers, read_data   \* what a reader of the file returns

expVars == <<dictionary, headers, xpc, csv_file, read_headers, read_data>>

VARIABLES
  fichier_csv1, fichier_csv2,   \* the files given to utils/merge_csv.py
  colonne_cle,
  mpc,                \* position in main of utils/merge_csv.py
  lignes1, lignes2,   \* list(reader1), list(reader2): header line and rows
  key1, key2,         \* the indexes resolve_header returns, counted from 0
  ligne1_index,       \* position of the outer for loop in lignes1
  merged_data,        \* resulting_data of main
  match,
  merged_file,        \* the file at output
  merge_outcome       \* "running", "returned", "exit" or "IndexError"

mergeVars ==
  <<fichier_csv1, fichier_csv2, colonne_cle, mpc, lignes1, lignes2, key1, key2,
    ligne1_index, merged_data, match, merged_file, merge_outcome>>

VARIABLES
  lgpc,               \* position in filter_and_save_csv of utils/select_best_samples.py
  legacy_output,      \* the file at its output_csv
  legacy_outcome      \* "running", "returned" or "raised"

legacyVars == <<lgpc, legacy_output, legacy_outcome>>

vars ==
  <<selVars, joinVars, extVars, refVars, aggVars, expVars, mergeVars, legacyVars>>

\* the variables of the other operations, for each operation
exceptSel ==
  <<joinVars, extVars, refVars, aggVars, expVars, mergeVars, legacyVars>>
exceptJoin ==
  <<selVars, extVars, refVars, aggVars, expVars, mergeVars, legacyVars>>
exceptExt ==
  <<selVars, joinVars, refVars, aggVars, expVars, mergeVars, legacyVars>>
exceptRef ==
  <<selVars, joinVars, extVars, aggVars, expVars, mergeVars, legacyVars>>
exceptAgg ==
  <<selVars, joinVars, extVars, refVars, expVars, mergeVars, legacyVars>>
exceptExp ==
  <<selVars, joinVars, extVars, refVars, aggVars, mergeVars, legacyVars>>
exceptMerge ==
  <<selVars, joinVars, extVars, refVars, aggVars, expVars, legacyVars>>

\* no extractor is running
ExtIdle ==
  /\ ext_function = "" /\ input_kind = "missing" /\ corpus_files = {}
  /\ audio_type = "" /\ unreadable = {} /\ unscorable = {}
  /\ epc = "idle" /\ glob_pattern = <<>> /\ file_paths = <<>>
  /\ scored = {} /\ results = <<>>
  /\ ext_output = NoFile /\ ext_outcome = "running"

\* no reference is being resolved
RefIdle ==
  /\ speaker = <<>> /\ cloned_wav_filename = <<>> /\ ref_dir = ""
  /\ rpc = "idle" /\ sample_raw_name = <<>> /\ ref_wav_path = <<>>

\* no export is running
ExpIdle ==
  /\ dictionary = <<>> /\ headers = <<>> /\ xpc = "idle"
  /\ csv_file = <<>> /\ read_headers = <<>> /\ read_data = <<>>

\* the merge script is not running
MergeIdle ==
  /\ fichier_csv1 = NoFile /\ fichier_csv2 = NoFile /\ colonne_cle = ""
  /\ mpc = "idle" /\ lignes1 = <<>> /\ lignes2 = <<>> /\ key1 = -1 /\ key2 = -1
  /\ ligne1_index = 1 /\ merged_data = <<>> /\ match = 0
  /\ merged_file = NoFile /\ merge_outcome = "running"

\* the legacy selector is not running
LegacyIdle == lgpc = "idle" /\ legacy_output = NoFile /\ legacy_outcome = "running"

\* no aggregation is running
AggIdle ==
  /\ data_kind = "missing" /\ tree = <<>> /\ agpc = "idle"
  /\ model_queue = <<>> /\ model_name = "" /\ speaker_queue = <<>>
  /\ speaker_name = "" /\ probe_index = 1 /\ embedded = {}
  /\ opened_files = {} /\ detail_rows = <<>> /\ log_warnings = <<>>
  /\ speaker_scores_for_stats = <<>> /\ model_scores_for_stats = <<>>
  /\ speaker_stats_rows = <<>> /\ model_stats_rows = <<>>
  /\ agg_outcome = "running"

joinParams == <<csv1, csv2, key_column>>

\* the join is not running
JoinIdle ==
  /\ csv1 = NoFile /\ csv2 = NoFile /\ key_column = ""
  /\ jpc = "idle"
  /\ header1 = <<>> /\ data1 = <<>> /\ key1_idx = 0
  /\ header2 = <<>> /\ data2 = <<>> /\ key2_idx = 0
  /\ output_header = <<>> /\ data2_dict = <<>> /\ i2 = 1
  /\ resulting_data = <<>> /\ matches_found = 0 /\ i1 = 1
  /\ joined_csv = NoFile /\ join_result = "running"

selParams ==
  <<input_csv, score_column_name, duration_column_name, size_threshold_ms,
    sort_descending>>

(***************************************************************************)
(* filter_and_save_csv_by_score_and_duration                               *)
(***************************************************************************)
SelInit ==
  /\ input_csv \in InputFiles
  /\ score_column_name = "MOS"
  /\ duration_column_name = "Duration"
  /\ size_threshold_ms \in 0..MaxBudget
  /\ sort_descending \in BOOLEAN
  /\ pc = "open"
  /\ fieldnames = <<>>
  /\ sorted_rows = <<>>
  /\ idx = 1
  /\ selected_rows = <<>>
  /\ total_duration_ms = Fin(0)
  /\ output_csv = NoFile
  /\ outcome = "running"
  /\ JoinIdle /\ ExtIdle /\ RefIdle /\ AggIdle /\ ExpIdle /\ MergeIdle
  /\ LegacyIdle

\* the selector is not running
SelIdle ==
  /\ input_csv = NoFile
  /\ score_column_name = "" /\ duration_column_name = ""
  /\ size_threshold_ms = 0 /\ sort_descending = FALSE
  /\ pc = "idle"
  /\ fieldnames = <<>> /\ sorted_rows = <<>> /\ idx = 1
  /\ selected_rows = <<>> /\ total_duration_ms = Fin(0)
  /\ output_csv = NoFile /\ outcome = "running"

\* sort_key(row_dict)
sort_key(row_dict, score_column, descending) ==
  LET p == ParseFloat(row_dict[score_column])
  IN IF p.ok THEN p.val ELSE (IF descending THEN NInf ELSE PInf)

\* variant: reverse is ignored, the order is always ascending
Precedes_IgnoresReverse(x, y, score_column, descending) ==
  FloatLt(sort_key(x, score_column, descending), sort_key(y, score_column, descending))

\* whether x must stand before y in sorted(..., reverse=descending)
Precedes(x, y, score_column, descending) ==
  IF descending
  THEN FloatLt(sort_key(y, score_column, descending), sort_key(x, score_column, descending))
  ELSE FloatLt(sort_key(x, score_column, descending), sort_key(y, score_column, descending))

\* variant: x is inserted in front of the rows of equal key
StableInsert_BeforeEquals(rows, x, score_column, descending) ==
  LET before == {j \in 1..Len(rows) : ~Precedes(rows[j], x, score_column, descending)}
      at == IF before = {} THEN Len(rows) + 1
            ELSE CHOOSE j \in before : \A k \in before : j <= k
  IN SubSeq(rows, 1, at - 1) \o <<x>> \o SubSeq(rows, at, Len(rows))

\* insert x behind every row it does not strictly precede (the sort is stable)
StableInsert(rows, x, score_column, descending) ==
  LET before == {j \in 1..Len(rows) : Precedes(x, rows[j], score_column, descending)}
      at == IF before = {} THEN Len(rows) + 1
            ELSE CHOOSE j \in before : \A k \in before : j <= k
  IN SubSeq(rows, 1, at - 1) \o <<x>> \o SubSeq(rows, at, Len(rows))

RECURSIVE Sorted(_, _, _)
\* sorted(all_rows, key=sort_key, reverse=sort_descending)
Sorted(rows, score_column, descending) ==
  IF rows = <<>> THEN <<>>
  ELSE StableInsert(Sorted(SubSeq(rows, 1, Len(rows) - 1), score_column, descending),
                    rows[Len(rows)], score_column, descending)

\* variant: the row is compared alone, the running total is forgotten
Fits_IgnoresTotal(total, current, threshold) ==
  threshold = 0 \/ FloatLe(current, Fin(threshold))

\* variant: budget 0 is an ordinary budget
Fits_ZeroIsABudget(total, current, threshold) ==
  FloatLe(FloatAdd(total, current), Fin(threshold))

\* variant: the comparison is turned around
Fits_Reversed(total, current, threshold) ==
  threshold = 0 \/ FloatLe(Fin(threshold), FloatAdd(total, current))

\* the test of the selection loop
Fits(total, current, threshold) ==
  threshold = 0 \/ FloatLe(FloatAdd(total, current), Fin(threshold))

\* a required column is absent from the header
MissingColumn(header, score_column, duration_column) ==
  score_column \notin Range(header) \/ duration_column \notin Range(header)

\* the input has no header: an output without header is written, no error
SelNoHeader ==
  /\ pc = "open"
  /\ input_csv.header = <<>>
  /\ output_csv' = [exists |-> TRUE, header |-> <<>>, rows |-> <<>>]
  /\ outcome' = "returned"
  /\ pc' = "done"
  /\ UNCHANGED <<selParams, fieldnames, sorted_rows, idx, selected_rows, total_duration_ms>>
  /\ UNCHANGED exceptSel

\* variant: a missing column is handled like a missing header
SelMissingColumn_WritesEmpty ==
  /\ pc = "open"
  /\ input_csv.header # <<>>
  /\ score_column_name \notin Range(input_csv.header)
       \/ duration_column_name \notin Range(input_csv.header)
  /\ fieldnames' = input_csv.header
  /\ output_csv' = [exists |-> TRUE, header |-> <<>>, rows |-> <<>>]
  /\ outcome' = "returned"
  /\ pc' = "done"
  /\ UNCHANGED <<selParams, sorted_rows, idx, selected_rows, total_duration_ms>>
  /\ UNCHANGED exceptSel

\* a required column is absent: ValueError, re-raised to the caller
SelMissingColumn ==
  /\ pc = "open"
  /\ input_csv.header # <<>>
  /\ MissingColumn(input_csv.header, score_column_name, duration_column_name)
  /\ fieldnames' = input_csv.header
  /\ outcome' = "raised"
  /\ pc' = "done"
  /\ UNCHANGED <<selParams, sorted_rows, idx, selected_rows, total_duration_ms, output_csv>>
  /\ UNCHANGED exceptSel

\* all rows are read and sorted by score
SelReadAndSort ==
  /\ pc = "open"
  /\ input_csv.header # <<>>
  /\ ~MissingColumn(input_csv.header, score_column_name, duration_column_name)
  /\ fieldnames' = input_csv.header
  /\ sorted_rows' =
       Sorted([i \in 1..Len(input_csv.rows) |-> DictRow(input_csv.header, input_csv.rows[i])],
              score_column_name, sort_descending)
  /\ pc' = "loop"
  /\ UNCHANGED <<selParams, idx, selected_rows, total_duration_ms, output_csv, outcome>>
  /\ UNCHANGED exceptSel

\* variant: the loop stops at the first row that does not fit
SelLoopStep_Break ==
  /\ pc = "loop"
  /\ idx <= Len(sorted_rows)
  /\ LET row == sorted_rows[idx]
         current_duration == ParseFloat(row[duration_column_name])
     IN IF ~current_duration.ok
        THEN /\ UNCHANGED <<selected_rows, total_duration_ms>>
             /\ idx' = idx + 1
        ELSE IF Fits(total_duration_ms, current_duration.val, size_threshold_ms)
             THEN /\ selected_rows' = Append(selected_rows, row)
                  /\ total_duration_ms' = FloatAdd(total_duration_ms, current_duration.val)
                  /\ idx' = idx + 1
             ELSE /\ UNCHANGED <<selected_rows, total_duration_ms>>
                  /\ idx' = Len(sorted_rows) + 1
  /\ UNCHANGED <<selParams, pc, fieldnames, sorted_rows, output_csv, outcome>>
  /\ UNCHANGED exceptSel

\* variant: a row whose duration does not parse is kept, counting for nothing
SelLoopStep_KeepsUnparsable ==
  /\ pc = "loop"
  /\ idx <= Len(sorted_rows)
  /\ LET row == sorted_rows[idx]
         current_duration == ParseFloat(row[duration_column_name])
     IN IF ~current_duration.ok
        THEN /\ selected_rows' = Append(selected_rows, row)
             /\ UNCHANGED total_duration_ms
        ELSE IF Fits(total_duration_ms, current_duration.val, size_threshold_ms)
             THEN /\ selected_rows' = Append(selected_rows, row)
                  /\ total_duration_ms' = FloatAdd(total_duration_ms, current_duration.val)
             ELSE UNCHANGED <<selected_rows, total_duration_ms>>
  /\ idx' = idx + 1
  /\ UNCHANGED <<selParams, pc, fieldnames, sorted_rows, output_csv, outcome>>
  /\ UNCHANGED exceptSel

\* one iteration of the selection loop
SelLoopStep ==
  /\ pc = "loop"
  /\ idx <= Len(sorted_rows)
  /\ LET row == sorted_rows[idx]
         current_duration == ParseFloat(row[duration_column_name])
     IN IF ~current_duration.ok
        THEN UNCHANGED <<selected_rows, total_duration_ms>>
        ELSE IF Fits(total_duration_ms, current_duration.val, size_threshold_ms)
             THEN /\ selected_rows' = Append(selected_rows, row)
                  /\ total_duration_ms' = FloatAdd(total_duration_ms, current_duration.val)
             ELSE UNCHANGED <<selected_rows, total_duration_ms>>
  /\ idx' = idx + 1
  /\ UNCHANGED <<selParams, pc, fieldnames, sorted_rows, output_csv, outcome>>
  /\ UNCHANGED exceptSel

\* the loop is over: header and selected rows are written
SelWrite ==
  /\ pc = "loop"
  /\ idx > Len(sorted_rows)
  /\ output_csv' = [exists |-> TRUE, header |-> fieldnames,
                    rows |-> [i \in 1..Len(selected_rows) |-> ListRow(fieldnames, selected_rows[i])]]
  /\ outcome' = "returned"
  /\ pc' = "done"
  /\ UNCHANGED <<selParams, fieldnames, sorted_rows, idx, selected_rows, total_duration_ms>>
  /\ UNCHANGED exceptSel

SelNext ==
  \/ SelNoHeader
  \/ SelMissingColumn
  \/ SelReadAndSort
  \/ SelLoopStep
  \/ SelWrite

SelectSpec == SelInit /\ [][SelNext]_vars

(***************************************************************************)
(* Properties of the selector.                                             *)
(***************************************************************************)
RECURSIVE FloatSum(_)
FloatSum(fs) ==
  IF fs = <<>> THEN Fin(0)
  ELSE FloatAdd(FloatSum(SubSeq(fs, 1, Len(fs) - 1)), fs[Len(fs)])

\* the selector went through its loop and wrote its output
SelFinished == pc = "done" /\ outcome = "returned" /\ input_csv.header # <<>>

\* the duration of the row at position i of the sorted order
DurationAt(i) == ParseFloat(sorted_rows[i][duration_column_name])

Selected(i) == sorted_rows[i] \in Range(selected_rows)

\* a row whose duration parses and that was examined and left out
LeftOut(i) == i < idx /\ DurationAt(i).ok /\ ~Selected(i)

\* the durations, read back from the output file
WrittenDurations ==
  [i \in 1..Len(output_csv.rows) |->
     ParseFloat(output_csv.rows[i][IndexOf(output_csv.header, duration_column_name)]).val]

\* the sum of the durations of the rows selected before position i
RECURSIVE IncludedBefore(_)
IncludedBefore(i) ==
  IF i <= 1 THEN Fin(0)
  ELSE IF Selected(i - 1)
       THEN FloatAdd(IncludedBefore(i - 1), DurationAt(i - 1).val)
       ELSE IncludedBefore(i - 1)

\* C1: with a budget > 0 the running total never exceeds the budget, and the
\* durations of the rows written sum to at most the budget.
C1_TotalWithinBudget ==
  size_threshold_ms > 0 =>
    /\ FloatLe(total_duration_ms, Fin(size_threshold_ms))
    /\ SelFinished => FloatLe(FloatSum(WrittenDurations), Fin(size_threshold_ms))

C1_Witness ==
  /\ SelFinished
  /\ size_threshold_ms > 0
  /\ Len(output_csv.rows) >= 2
  /\ FloatSum(WrittenDurations) = Fin(size_threshold_ms)
  /\ \E i \in 1..Len(sorted_rows) : LeftOut(i)

\* C2: every examined row whose duration d parses is selected iff the budget
\* is 0 or (sum of the durations selected before it) + d <= budget; the scan
\* goes through all rows, a row that does not fit does not end it.
C2_PerRowDecision ==
  /\ \A i \in 1..Len(sorted_rows) :
       (i < idx /\ DurationAt(i).ok) =>
         (Selected(i) <=>
            \/ size_threshold_ms = 0
            \/ FloatLe(FloatAdd(IncludedBefore(i), DurationAt(i).val),
                       Fin(size_threshold_ms)))
  /\ SelFinished => idx = Len(sorted_rows) + 1

\* the scenario y(5.0,400000), x(4.0,300000), z(3.0,100000), budget 600000,
\* descending, scaled: y(2,2), x(1,2), z(Error,1), budget 3, gives [y, z]
C2_Witness ==
  /\ SelFinished
  /\ sort_descending
  /\ size_threshold_ms = 3
  /\ input_csv.header = <<"K", "MOS", "Duration">>
  /\ input_csv.rows = << <<"r1", "1", "2">>, <<"r2", "2", "2">>, <<"r3", "Error", "1">> >>
  /\ output_csv.rows = << <<"r2", "2", "2">>, <<"r3", "Error", "1">> >>

\* C3 as stated: no row is selected behind a row left out for the budget,
\* the selected rows are a prefix of the sorted rows with a duration.
C3_StrictPrefix ==
  SelFinished =>
    \A i, j \in 1..Len(sorted_rows) :
      (i < j /\ LeftOut(i)) => ~Selected(j)

\* every duration of the table that parses is finite and not negative
DurationsNonNegative ==
  \A i \in 1..Len(sorted_rows) :
    DurationAt(i).ok =>
      (FloatLe(Fin(0), DurationAt(i).val) /\ FloatLt(DurationAt(i).val, PInf))

\* C3 as amended: the selected rows are a subsequence of the sorted order,
\* not necessarily a prefix: a row may be selected behind a row left out for
\* the budget, and then (all durations being finite and not negative) its
\* duration is strictly smaller than that of the row left out.
C3_SubsequenceSmallerLater ==
  /\ \A a, b \in 1..Len(selected_rows) :
       a < b => \E i, j \in 1..Len(sorted_rows) :
                  i < j /\ sorted_rows[i] = selected_rows[a]
                        /\ sorted_rows[j] = selected_rows[b]
  /\ (size_threshold_ms > 0 /\ DurationsNonNegative) =>
       \A i, j \in 1..Len(sorted_rows) :
         (i < j /\ LeftOut(i) /\ j < idx /\ Selected(j))
           => FloatLt(DurationAt(j).val, DurationAt(i).val)

C3_Witness ==
  /\ SelFinished
  /\ Len(selected_rows) >= 2
  /\ \E i, j \in 1..Len(sorted_rows) : i < j /\ LeftOut(i) /\ Selected(j)

\* the input rows whose duration cell parses
ParseableInputRows ==
  {r \in Range(input_csv.rows) :
     ParseFloat(r[IndexOf(input_csv.header, duration_column_name)]).ok}

ScoreParses(i) == ParseFloat(sorted_rows[i][score_column_name]).ok

\* C5: in the sorted order no row whose score does not parse stands before a
\* row whose score parses, for both directions.
C5_UnparsableScoresLast ==
  \A i, j \in 1..Len(sorted_rows) :
    (i < j /\ ScoreParses(j)) => ScoreParses(i)

WrittenKey(i) ==
  LET p == ParseFloat(output_csv.rows[i][IndexOf(output_csv.header, score_column_name)])
  IN IF p.ok THEN p.val ELSE (IF sort_descending THEN NInf ELSE PInf)

\* C7: the output has the header of the input, its rows are rows of the
\* input, and they stand in rank order: by score, in the chosen direction.
C7_ColumnsAndRankOrder ==
  SelFinished =>
    /\ output_csv.header = input_csv.header
    /\ Range(output_csv.rows) \subseteq Range(input_csv.rows)
    /\ \A i \in 1..(Len(output_csv.rows) - 1) :
         IF sort_descending
         THEN FloatLe(WrittenKey(i + 1), WrittenKey(i))
         ELSE FloatLe(WrittenKey(i), WrittenKey(i + 1))

\* the rows come out in another order than they went in
C7_Witness ==
  /\ SelFinished
  /\ sort_descending
  /\ input_csv.rows = << <<"r1", "1", "1">>, <<"r2", "2", "2">> >>
  /\ output_csv.header = <<"K", "MOS", "Duration">>
  /\ output_csv.rows = << <<"r2", "2", "2">>, <<"r1", "1", "1">> >>

MaxJoinRows == 2

JoinKeys == {"a", "b", "c"}

Headers1 == { <<"Path", "Duration">>, <<"Duration", "Path">>, <<"Duration">> }
Headers2 == { <<"Path", "MOS">>, <<"MOS", "Path", "Language">>, <<"MOS">> }

JoinCellsFor(column) ==
  CASE column = "Path" -> JoinKeys
    [] column = "Duration" -> {"d1", "d2"}
    [] column = "MOS" -> {"m1", "m2"}
    [] OTHER -> {"fr"}

RECURSIVE JoinCellRows(_, _)
JoinCellRows(header, n) ==
  IF n = 0 THEN {<<>>}
  ELSE {Append(r, c) : r \in JoinCellRows(header, n - 1), c \in JoinCellsFor(header[n])}

RECURSIVE JoinTablesOfLen(_, _)
JoinTablesOfLen(header, n) ==
  IF n = 0 THEN {<<>>}
  ELSE {Append(t, r) : t \in JoinTablesOfLen(header, n - 1),
                       r \in JoinCellRows(header, Len(header))}

JoinFiles(header_set) ==
  UNION { { [exists |-> TRUE, header |-> h, rows |-> t] :
              t \in UNION { JoinTablesOfLen(h, n) : n \in 0..MaxJoinRows } }
          : h \in header_set }

JoinInit ==
  /\ csv1 \in JoinFiles(Headers1)
  /\ csv2 \in JoinFiles(Headers2)
  /\ key_column = "Path"
  /\ jpc = "read1"
  /\ header1 = <<>> /\ data1 = <<>> /\ key1_idx = 0
  /\ header2 = <<>> /\ data2 = <<>> /\ key2_idx = 0
  /\ output_header = <<>> /\ data2_dict = <<>> /\ i2 = 1
  /\ resulting_data = <<>> /\ matches_found = 0 /\ i1 = 1
  /\ joined_csv = NoFile /\ join_result = "running"
  /\ SelIdle /\ ExtIdle /\ RefIdle /\ AggIdle /\ ExpIdle /\ MergeIdle
  /\ LegacyIdle

\* [r for i, r in enumerate(row) if i != k]
WithoutIndex(row, k) == SubSeq(row, 1, k - 1) \o SubSeq(row, k + 1, Len(row))

\* _get_column_index: the position of the first occurrence (counted from 1),
\* found is FALSE where ValueError is raised
get_column_index(header, column_name) ==
  IF column_name \in Range(header)
  THEN [found |-> TRUE, index |-> IndexOf(header, column_name)]
  ELSE [found |-> FALSE, index |-> 0]

\* variant: a later row with the same key replaces the stored one
DictStore_LastWins(dict, key_val, values) == (key_val :> values) @@ dict

\* if key_val not in data2_dict: data2_dict[key_val] = values
DictStore(dict, key_val, values) ==
  IF key_val \in DOMAIN dict THEN dict ELSE dict @@ (key_val :> values)

\* the first file is read and its key column located
JoinRead1 ==
  /\ jpc = "read1"
  /\ header1' = csv1.header
  /\ data1' = csv1.rows
  /\ LET c == get_column_index(csv1.header, key_column)
     IN IF c.found
        THEN /\ key1_idx' = c.index
             /\ jpc' = "read2"
             /\ UNCHANGED join_result
        ELSE /\ jpc' = "done"
             /\ join_result' = "False"
             /\ UNCHANGED key1_idx
  /\ UNCHANGED <<joinParams, header2, data2, key2_idx, output_header, data2_dict,
                 i2, resulting_data, matches_found, i1, joined_csv>>
  /\ UNCHANGED exceptJoin

\* variant: a key column that is not found is taken to be the last column
JoinRead2_NoCheck ==
  /\ jpc = "read2"
  /\ header2' = csv2.header
  /\ data2' = csv2.rows
  /\ LET c == get_column_index(csv2.header, key_column)
     IN key2_idx' = IF c.found THEN c.index ELSE Len(csv2.header)
  /\ jpc' = "header"
  /\ UNCHANGED <<joinParams, header1, data1, key1_idx, output_header, data2_dict,
                 i2, resulting_data, matches_found, i1, joined_csv, join_result>>
  /\ UNCHANGED exceptJoin

\* the second file is read and its key column located
JoinRead2 ==
  /\ jpc = "read2"
  /\ header2' = csv2.header
  /\ data2' = csv2.rows
  /\ LET c == get_column_index(csv2.header, key_column)
     IN IF c.found
        THEN /\ key2_idx' = c.index
             /\ jpc' = "header"
             /\ UNCHANGED join_result
        ELSE /\ jpc' = "done"
             /\ join_result' = "False"
             /\ UNCHANGED key2_idx
  /\ UNCHANGED <<joinParams, header1, data1, key1_idx, output_header, data2_dict,
                 i2, resulting_data, matches_found, i1, joined_csv>>
  /\ UNCHANGED exceptJoin

\* variant: the key column of header2 is kept
JoinBuildHeader_KeepsKey ==
  /\ jpc = "header"
  /\ output_header' = header1 \o header2
  /\ jpc' = "dict"
  /\ UNCHANGED <<joinParams, header1, data1, key1_idx, header2, data2, key2_idx,
                 data2_dict, i2, resulting_data, matches_found, i1, joined_csv,
                 join_result>>
  /\ UNCHANGED exceptJoin

\* output header: header1, then header2 without its key column
JoinBuildHeader ==
  /\ jpc = "header"
  /\ output_header' = header1 \o WithoutIndex(header2, key2_idx)
  /\ jpc' = "dict"
  /\ UNCHANGED <<joinParams, header1, data1, key1_idx, header2, data2, key2_idx,
                 data2_dict, i2, resulting_data, matches_found, i1, joined_csv,
                 join_result>>
  /\ UNCHANGED exceptJoin

\* variant: the key of a csv2 row is read at the key position of csv1
JoinDictStep_UsesKey1Idx ==
  /\ jpc = "dict"
  /\ i2 <= Len(data2)
  /\ LET row2 == data2[i2]
         key_val == row2[key1_idx]
     IN data2_dict' = DictStore(data2_dict, key_val, WithoutIndex(row2, key2_idx))
  /\ i2' = i2 + 1
  /\ UNCHANGED <<joinParams, jpc, header1, data1, key1_idx, header2, data2, key2_idx,
                 output_header, resulting_data, matches_found, i1, joined_csv,
                 join_result>>
  /\ UNCHANGED exceptJoin

\* one iteration of the loop that builds data2_dict
JoinDictStep ==
  /\ jpc = "dict"
  /\ i2 <= Len(data2)
  /\ LET row2 == data2[i2]
         key_val == row2[key2_idx]
     IN data2_dict' = DictStore(data2_dict, key_val, WithoutIndex(row2, key2_idx))
  /\ i2' = i2 + 1
  /\ UNCHANGED <<joinParams, jpc, header1, data1, key1_idx, header2, data2, key2_idx,
                 output_header, resulting_data, matches_found, i1, joined_csv,
                 join_result>>
  /\ UNCHANGED exceptJoin

\* the lookup is complete: resulting_data = [output_header]
JoinStartRows ==
  /\ jpc = "dict"
  /\ i2 > Len(data2)
  /\ resulting_data' = <<output_header>>
  /\ matches_found' = 0
  /\ jpc' = "join"
  /\ UNCHANGED <<joinParams, header1, data1, key1_idx, header2, data2, key2_idx,
                 output_header, data2_dict, i2, i1, joined_csv, join_result>>
  /\ UNCHANGED exceptJoin

\* variant: a row of csv1 without match is kept as it is (left join)
JoinRowStep_KeepsUnmatched ==
  /\ jpc = "join"
  /\ i1 <= Len(data1)
  /\ LET row1 == data1[i1]
         key_val_csv1 == row1[key1_idx]
     IN IF key_val_csv1 \in DOMAIN data2_dict
        THEN /\ matches_found' = matches_found + 1
             /\ resulting_data' = Append(resulting_data, row1 \o data2_dict[key_val_csv1])
        ELSE /\ resulting_data' = Append(resulting_data, row1)
             /\ UNCHANGED matches_found
  /\ i1' = i1 + 1
  /\ UNCHANGED <<joinParams, jpc, header1, data1, key1_idx, header2, data2, key2_idx,
                 output_header, data2_dict, i2, joined_csv, join_result>>
  /\ UNCHANGED exceptJoin

\* one iteration of the loop over data1
JoinRowStep ==
  /\ jpc = "join"
  /\ i1 <= Len(data1)
  /\ LET row1 == data1[i1]
         key_val_csv1 == row1[key1_idx]
     IN IF key_val_csv1 \in DOMAIN data2_dict
        THEN /\ matches_found' = matches_found + 1
             /\ resulting_data' = Append(resulting_data, row1 \o data2_dict[key_val_csv1])
        ELSE UNCHANGED <<resulting_data, matches_found>>
  /\ i1' = i1 + 1
  /\ UNCHANGED <<joinParams, jpc, header1, data1, key1_idx, header2, data2, key2_idx,
                 output_header, data2_dict, i2, joined_csv, join_result>>
  /\ UNCHANGED exceptJoin

\* resulting_data is written, header first; True is returned
JoinWrite ==
  /\ jpc = "join"
  /\ i1 > Len(data1)
  /\ joined_csv' = [exists |-> TRUE, header |-> Head(resulting_data),
                    rows |-> Tail(resulting_data)]
  /\ join_result' = "True"
  /\ jpc' = "done"
  /\ UNCHANGED <<joinParams, header1, data1, key1_idx, header2, data2, key2_idx,
                 output_header, data2_dict, i2, resulting_data, matches_found, i1>>
  /\ UNCHANGED exceptJoin

JoinNext ==
  \/ JoinRead1
  \/ JoinRead2
  \/ JoinBuildHeader
  \/ JoinDictStep
  \/ JoinStartRows
  \/ JoinRowStep
  \/ JoinWrite

JoinSpec == JoinInit /\ [][JoinNext]_vars

(***************************************************************************)
(* Properties of the join.                                                 *)
(***************************************************************************)
JoinFinished == jpc = "done" /\ join_result = "True"

\* position of the key column in a header of the input files
KeyIndex(header) == IndexOf(header, key_column)

\* the key values of csv2
Keys2 == {csv2.rows[i][KeyIndex(csv2.header)] : i \in 1..Len(csv2.rows)}

\* the first row of csv2, in file order, whose key is k
FirstRow2(k) ==
  LET at == CHOOSE i \in 1..Len(csv2.rows) :
              /\ csv2.rows[i][KeyIndex(csv2.header)] = k
              /\ \A j \in 1..(i - 1) : csv2.rows[j][KeyIndex(csv2.header)] # k
  IN csv2.rows[at]

\* what a joined row holds behind the columns of csv1
Right(joined_row) == SubSeq(joined_row, Len(csv1.header) + 1, Len(joined_row))

\* C9: every joined row carries the non-key values of the first row of csv2
\* that has its key; values of a later row with the same key do not appear.
C9_FirstDuplicateWins ==
  JoinFinished =>
    \A i \in 1..Len(joined_csv.rows) :
      LET k == joined_csv.rows[i][KeyIndex(csv1.header)]
      IN /\ k \in Keys2
         /\ Right(joined_csv.rows[i])
              = WithoutIndex(FirstRow2(k), KeyIndex(csv2.header))

\* csv2 holds the same key twice with different values, and the key is joined
C9_Witness ==
  /\ JoinFinished
  /\ Len(csv2.rows) = 2
  /\ csv2.rows[1][KeyIndex(csv2.header)] = csv2.rows[2][KeyIndex(csv2.header)]
  /\ csv2.rows[1] # csv2.rows[2]
  /\ Len(joined_csv.rows) >= 1

\* the rows of csv1 whose key occurs in csv2, in file order
MatchedRows1 ==
  LET HasMatch(row1) == row1[KeyIndex(csv1.header)] \in Keys2
  IN SelectSeq(csv1.rows, HasMatch)

\* C10: the joined rows are, in order, one row for each row of csv1 whose key
\* occurs in csv2: that row followed by the non-key values of a csv2 row with
\* the same key.  Nothing else is emitted.
C10_PureInnerJoin ==
  JoinFinished =>
    /\ Len(joined_csv.rows) = Len(MatchedRows1)
    /\ \A i \in 1..Len(joined_csv.rows) :
         /\ SubSeq(joined_csv.rows[i], 1, Len(csv1.header)) = MatchedRows1[i]
         /\ \E j \in 1..Len(csv2.rows) :
              /\ csv2.rows[j][KeyIndex(csv2.header)]
                   = MatchedRows1[i][KeyIndex(csv1.header)]
              /\ Right(joined_csv.rows[i])
                   = WithoutIndex(csv2.rows[j], KeyIndex(csv2.header))

\* csv1 has a matched and an unmatched row, csv2 has a row without partner
C10_Witness ==
  /\ JoinFinished
  /\ Len(csv1.rows) = 2
  /\ Len(joined_csv.rows) = 1
  /\ \E j \in 1..Len(csv2.rows) :
       \A i \in 1..Len(csv1.rows) :
         csv2.rows[j][KeyIndex(csv2.header)] # csv1.rows[i][KeyIndex(csv1.header)]

\* the key values of csv1
Keys1 == {csv1.rows[i][KeyIndex(csv1.header)] : i \in 1..Len(csv1.rows)}

\* no two rows of the file have the same key
UniqueKeys(file) ==
  \A i, j \in 1..Len(file.rows) :
    i # j => file.rows[i][KeyIndex(file.header)] # file.rows[j][KeyIndex(file.header)]

\* C11: when the keys of csv1 are pairwise distinct and the keys of csv2 are
\* pairwise distinct, the join has as many data rows as there are key values
\* present in both files.
C11_RowCountIsKeyIntersection ==
  (JoinFinished /\ UniqueKeys(csv1) /\ UniqueKeys(csv2)) =>
    Len(joined_csv.rows) = Cardinality(Keys1 \cap Keys2)

\* both files hold two distinct keys, one of them common
C11_Witness ==
  /\ JoinFinished
  /\ UniqueKeys(csv1) /\ UniqueKeys(csv2)
  /\ Len(csv1.rows) = 2 /\ Len(csv2.rows) = 2
  /\ Cardinality(Keys1 \cap Keys2) = 1
  /\ Len(joined_csv.rows) = 1

\* C12: the header of the output is the header of csv1 followed by the
\* header of csv2 without the key column, so the key column is named once;
\* also when no row matches.
C12_OutputHeader ==
  JoinFinished =>
    LET NotKey(column) == column # key_column
    IN /\ joined_csv.header = csv1.header \o SelectSeq(csv2.header, NotKey)
       /\ Cardinality({i \in 1..Len(joined_csv.header) :
                         joined_csv.header[i] = key_column}) = 1

\* both files have rows, none matches, the header is written all the same
C12_Witness ==
  /\ JoinFinished
  /\ Len(csv1.rows) >= 1 /\ Len(csv2.rows) >= 1
  /\ joined_csv.rows = <<>>
  /\ joined_csv.header = <<"Duration", "Path", "MOS", "Language">>

\* the key column is absent from the header of one of the two files
KeyColumnAbsent ==
  key_column \notin Range(csv1.header) \/ key_column \notin Range(csv2.header)

\* C13: when the key column is absent from the header of the first or of the
\* second file, the output file is never created and the join returns False.
C13_MissingKeyColumnFails ==
  (jpc # "idle" /\ KeyColumnAbsent) =>
    /\ ~joined_csv.exists
    /\ jpc = "done" => join_result = "False"

\* the key is in the first header and not in the second
C13_Witness ==
  /\ jpc = "done"
  /\ key_column \in Range(csv1.header)
  /\ key_column \notin Range(csv2.header)
  /\ Len(csv1.rows) >= 1 /\ Len(csv2.rows) >= 1
  /\ join_result = "False"
  /\ ~joined_csv.exists

(***************************************************************************)
(* calculate_mos_for_directory (audioprocessing/selection.py) and          *)
(* calculate_similarity_for_directory (audioprocessing/similarity.py).     *)
(* Both modules bind the name glob with "from glob import glob" and then   *)
(* evaluate glob.glob(...): the attribute lookup on the function raises    *)
(* AttributeError, outside any try block, so the statements behind it (the *)
(* empty-result return, the loop over the files, the export) never run.    *)
(***************************************************************************)
MaxCorpus == 3

\* the names a corpus file may have, in the order of their paths
CorpusNames ==
  << [stem |-> "a", ext |-> "wav"], [stem |-> "b", ext |-> "WAV"],
     [stem |-> "c", ext |-> "txt"], [stem |-> "d", ext |-> "wav"],
     [stem |-> "e", ext |-> "WAV"] >>

AudioTypes == {"wav", "WAV"}

\* str.lower() on the extensions of the model
LowerText == ("wav" :> "wav") @@ ("WAV" :> "wav") @@ ("txt" :> "txt")

\* what "from glob import glob" binds the name glob to
GlobBinding == "function"

\* whether the object bound to glob has an attribute named glob
HasGlobAttribute(binding) == binding = "module"

ExtInit ==
  /\ ext_function \in {"mos", "similarity"}
  /\ input_kind \in {"dir", "file", "missing"}
  /\ corpus_files \in SUBSET {CorpusNames[i] : i \in 1..MaxCorpus}
  /\ input_kind # "dir" => corpus_files = {}
  /\ audio_type \in AudioTypes
  /\ unreadable \in SUBSET corpus_files
  /\ unscorable \in SUBSET corpus_files
  /\ epc = "check"
  /\ glob_pattern = <<>> /\ file_paths = <<>>
  /\ scored = {} /\ results = <<>>
  /\ ext_output = NoFile /\ ext_outcome = "running"
  /\ SelIdle /\ JoinIdle /\ RefIdle /\ AggIdle /\ ExpIdle /\ MergeIdle
  /\ LegacyIdle

\* variant: any existing path is accepted (os.path.exists for os.path.isdir)
ExtCheckDir_ExistsOnly ==
  /\ epc = "check"
  /\ IF input_kind = "missing"
     THEN /\ ext_outcome' = "FileNotFoundError"
          /\ epc' = "done"
          /\ UNCHANGED <<results, glob_pattern>>
     ELSE /\ results' = <<>>
          /\ glob_pattern' = <<"input_path", "**", <<"*.", LowerText[audio_type]>> >>
          /\ epc' = "glob"
          /\ UNCHANGED ext_outcome
  /\ UNCHANGED <<extParams, file_paths, scored, ext_output>>
  /\ UNCHANGED exceptExt

\* input_path is validated; results and the glob pattern are set up
ExtCheckDir ==
  /\ epc = "check"
  /\ IF input_kind # "dir"
     THEN /\ ext_outcome' = "FileNotFoundError"
          /\ epc' = "done"
          /\ UNCHANGED <<results, glob_pattern>>
     ELSE /\ results' = <<>>
          /\ glob_pattern' = <<"input_path", "**", <<"*.", LowerText[audio_type]>> >>
          /\ epc' = "glob"
          /\ UNCHANGED ext_outcome
  /\ UNCHANGED <<extParams, file_paths, scored, ext_output>>
  /\ UNCHANGED exceptExt

\* file_paths = sorted(glob.glob(glob_pattern, recursive=True)): glob is the
\* function, glob.glob raises AttributeError and the extractor is left
ExtGlob ==
  /\ epc = "glob"
  /\ ~HasGlobAttribute(GlobBinding)
  /\ ext_outcome' = "AttributeError"
  /\ epc' = "done"
  /\ UNCHANGED <<extParams, glob_pattern, file_paths, scored, results, ext_output>>
  /\ UNCHANGED exceptExt

ExtNext ==
  \/ ExtCheckDir
  \/ ExtGlob

ExtractSpec == ExtInit /\ [][ExtNext]_vars

(***************************************************************************)
(* Properties of the extractors.                                           *)
(***************************************************************************)
\* the extractor has ended on an existing directory
ExtEnded == epc = "done" /\ input_kind = "dir"

\* the files whose name ends with "." + audio_type, ignoring case
MatchingIgnoringCase ==
  {f \in corpus_files : LowerText[f.ext] = LowerText[audio_type]}

\* the files whose name ends with "." + audio_type in lower case
MatchingLowerCase == {f \in corpus_files : f.ext = LowerText[audio_type]}

PathIndex(f) == CHOOSE i \in 1..Len(CorpusNames) : CorpusNames[i] = f

\* the paths written in the first column of the output
WrittenPaths == [i \in 1..Len(ext_output.rows) |-> ext_output.rows[i][1]]

\* C14: on a corpus with a matching file the extractor returns normally
\* whatever fails per file, and writes one row per matching file, a failed
\* field holding its sentinel.
C14_BatchSurvivesItemFailures ==
  (ExtEnded /\ MatchingLowerCase # {}) =>
    /\ ext_outcome = "returned"
    /\ ext_output.exists
    /\ Len(ext_output.rows) = Cardinality(MatchingLowerCase)
    /\ Range(WrittenPaths) = MatchingLowerCase
    /\ \A i \in 1..Len(ext_output.rows) :
         /\ ext_output.rows[i][1] \in unreadable
              => ext_output.rows[i][2] = "Error: Duration unreadable"
         /\ ext_output.rows[i][1] \in scored \cap unscorable
              => ext_output.rows[i][3] \in {"Error: Calculation failed",
                                            "Error: Similarity calculation failed"}

\* C15: the scorer is called on every matching file, also on a file whose
\* duration could not be read.
C15_ScorerAlwaysAttempted ==
  ExtEnded => \A f \in MatchingLowerCase : f \in scored

\* C16: the rows of the output are the matching files in the order of their
\* paths.
C16_RowsInSortedPathOrder ==
  (ExtEnded /\ MatchingLowerCase # {}) =>
    /\ ext_output.exists
    /\ Range(WrittenPaths) = MatchingLowerCase
    /\ \A i, j \in 1..Len(WrittenPaths) :
         i < j => PathIndex(WrittenPaths[i]) < PathIndex(WrittenPaths[j])

\* C17: a file is enumerated iff its name ends with "." + audio_type, both
\* compared ignoring case.
C17_ExtensionIgnoresCase ==
  ExtEnded => Range(file_paths) = MatchingIgnoringCase

\* C18: on a directory without matching file the extractor returns normally
\* and creates no output file.
C18_EmptyCorpusReturns ==
  (ExtEnded /\ MatchingIgnoringCase = {}) =>
    (ext_outcome = "returned" /\ ~ext_output.exists)

\* C19: when input_path is missing or not a directory the extractor raises
\* FileNotFoundError; no file is scored and no output is created.
C19_InvalidRootFailsFirst ==
  (epc # "idle" /\ input_kind # "dir") =>
    /\ scored = {}
    /\ ~ext_output.exists
    /\ epc = "done" => ext_outcome = "FileNotFoundError"

\* input_path names a file, not a directory
C19_Witness ==
  /\ epc = "done"
  /\ input_kind = "file"
  /\ ext_outcome = "FileNotFoundError"
  /\ ~ext_output.exists

(***************************************************************************)
(* Reference resolution of calculate_similarity_for_speaker_directory_     *)
(* structure (audioprocessing/similarity.py): the name of the reference    *)
(* file is derived from the name of the cloned file and the speaker.  A    *)
(* text is a sequence of one-character strings.                            *)
(***************************************************************************)
MaxNameChunks == 4

Underscore == <<"_">>
Synthesis == <<"_", "s", "y", "n", "t", "h", "e", "s", "i", "s">>
DotWav == <<".", "w", "a", "v">>

\* the pieces file names are made of, and the speaker directories
NameChunks == { <<"a", "_">>, <<"a">>, <<"_">>, <<"u">>, Synthesis }
Speakers == { <<"a">>, <<"a", "_", "a">>, <<"u">> }
RefDirs == {"ref_dir"}

RECURSIVE Concat(_)
Concat(chunks) ==
  IF chunks = <<>> THEN <<>> ELSE Head(chunks) \o Concat(Tail(chunks))

\* the .wav file names os.listdir may return
ClonedNames ==
  { Concat(chunks) \o DotWav :
      chunks \in UNION { [1..n -> NameChunks] : n \in 1..MaxNameChunks } }

RefInit ==
  /\ speaker \in Speakers
  /\ cloned_wav_filename \in ClonedNames
  /\ ref_dir \in RefDirs
  /\ rpc = "resolve"
  /\ sample_raw_name = <<>>
  /\ ref_wav_path = <<>>
  /\ SelIdle /\ JoinIdle /\ ExtIdle /\ AggIdle /\ ExpIdle /\ MergeIdle
  /\ LegacyIdle

\* sep occurs in s at position i
StartsWithAt(s, sep, i) ==
  /\ i + Len(sep) - 1 <= Len(s)
  /\ SubSeq(s, i, i + Len(sep) - 1) = sep

\* sep in s
Contains(s, sep) == \E i \in 1..Len(s) : StartsWithAt(s, sep, i)

\* s.find(sep, from): the first position >= from where sep occurs, 0 if none
Find(s, sep, from) ==
  LET hits == {i \in from..Len(s) : StartsWithAt(s, sep, i)}
  IN  IF hits = {} THEN 0 ELSE CHOOSE i \in hits : \A j \in hits : i <= j

\* variant: the text is cut at the first occurrence of sep only
RECURSIVE Split_FirstOnly(_, _, _)
Split_FirstOnly(s, sep, from) ==
  LET j == Find(s, sep, from)
  IN  IF j = 0 \/ from > 1
      THEN << SubSeq(s, from, Len(s)) >>
      ELSE << SubSeq(s, from, j - 1) >> \o Split_FirstOnly(s, sep, j + Len(sep))

\* s.split(sep) continued at position from: the occurrences of sep are taken
\* from left to right, each search starting behind the previous occurrence
RECURSIVE Split(_, _, _)
Split(s, sep, from) ==
  LET j == Find(s, sep, from)
  IN  IF j = 0
      THEN << SubSeq(s, from, Len(s)) >>
      ELSE << SubSeq(s, from, j - 1) >> \o Split(s, sep, j + Len(sep))

\* parts[-1]
Last(parts) == parts[Len(parts)]

\* the name of the reference file for a cloned file of a speaker
SampleRawName(spk, filename) ==
  LET speaker_underscore == spk \o Underscore
      after == IF Contains(filename, speaker_underscore)
               THEN Last(Split(filename, speaker_underscore, 1))
               ELSE filename
  IN  Head(Split(after, Synthesis, 1)) \o DotWav

\* os.path.join(os.path.join(ref_dir, speaker), sample_raw_name)
ResolveReference ==
  /\ rpc = "resolve"
  /\ sample_raw_name' = SampleRawName(speaker, cloned_wav_filename)
  /\ ref_wav_path' = <<ref_dir, speaker, SampleRawName(speaker, cloned_wav_filename)>>
  /\ rpc' = "done"
  /\ UNCHANGED <<speaker, cloned_wav_filename, ref_dir>>
  /\ UNCHANGED exceptRef

RefNext == ResolveReference

RefSpec == RefInit /\ [][RefNext]_vars

(***************************************************************************)
(* Properties of the reference resolution.                                 *)
(***************************************************************************)
\* the text of s behind the last position where sep occurs
AfterLastOccurrence(s, sep) ==
  LET hits == {i \in 1..Len(s) : StartsWithAt(s, sep, i)}
      last == CHOOSE i \in hits : \A j \in hits : j <= i
  IN  SubSeq(s, last + Len(sep), Len(s))

\* the text of s in front of the first position where sep occurs, s if none
BeforeFirstOccurrence(s, sep) ==
  IF Contains(s, sep) THEN SubSeq(s, 1, Find(s, sep, 1) - 1) ELSE s

\* the name the derivation by last occurrence gives
NameByLastOccurrence ==
  LET speaker_underscore == speaker \o Underscore
      after == IF Contains(cloned_wav_filename, speaker_underscore)
               THEN AfterLastOccurrence(cloned_wav_filename, speaker_underscore)
               ELSE cloned_wav_filename
  IN  BeforeFirstOccurrence(after, Synthesis) \o DotWav

\* two occurrences of sep in s share a character
Overlapping(s, sep) ==
  \E i, j \in 1..Len(s) :
    /\ i < j /\ j < i + Len(sep)
    /\ StartsWithAt(s, sep, i) /\ StartsWithAt(s, sep, j)

\* C20 as stated: the derived name is the text after the last occurrence of
\* speaker + "_" (the whole name if there is none), cut before the first
\* "_synthesis", with ".wav" appended, looked up at ref_dir/speaker/name.
C20_AfterLastOccurrence ==
  rpc = "done" =>
    /\ sample_raw_name = NameByLastOccurrence
    /\ ref_wav_path = <<ref_dir, speaker, sample_raw_name>>

\* C20 amended: the same, when no two occurrences of speaker + "_" in the
\* file name overlap; when they overlap the text behind the last occurrence
\* of a scan from the left that restarts behind each occurrence is taken.
C20_AfterLastSeparateOccurrence ==
  rpc = "done" =>
    /\ ref_wav_path = <<ref_dir, speaker, sample_raw_name>>
    /\ ~Overlapping(cloned_wav_filename, speaker \o Underscore)
         => sample_raw_name = NameByLastOccurrence
    /\ (speaker = <<"a", "_", "a">>
          /\ cloned_wav_filename = <<"a", "_", "a", "_", "a", "_", "u">> \o DotWav)
         => sample_raw_name = <<"a", "_", "u">> \o DotWav \o DotWav

\* "a_a_u_synthesis.wav" of speaker "a" gives "u.wav"
C20_Witness ==
  /\ rpc = "done"
  /\ speaker = <<"a">>
  /\ cloned_wav_filename = <<"a", "_", "a", "_", "u">> \o Synthesis \o DotWav
  /\ sample_raw_name = <<"u">> \o DotWav
  /\ ref_wav_path = <<"ref_dir", <<"a">>, <<"u">> \o DotWav>>

(***************************************************************************)
(* calculate_similarity_for_speaker_directory_structure                    *)
(* (audioprocessing/similarity.py): the cloned files below                 *)
(* data_dir/model/speaker are compared with their reference files, every   *)
(* pair gets a detail row, and the valid cosine similarities are pooled    *)
(* per (model, speaker) and per model.                                     *)
(***************************************************************************)
MaxProbes == 2

\* the names os.listdir may return, in the order it returns them
ModelNames == <<"m1", "m2">>
SpeakerNames == <<"s1", "s2">>

\* what happens to a cloned file: its name does not end with .wav, its
\* reference file does not exist, compute_similarity returns None, or
\* compute_similarity returns (cosine, euclidean)
ProbeOutcomes ==
  { [kind |-> "notwav", cosine |-> 0, euclidean |-> 0],
    [kind |-> "noref", cosine |-> 0, euclidean |-> 0],
    [kind |-> "None", cosine |-> 0, euclidean |-> 0],
    [kind |-> "scores", cosine |-> 1, euclidean |-> 0] }

RECURSIVE ProbeLists(_)
ProbeLists(n) ==
  IF n = 0 THEN {<<>>}
  ELSE {Append(l, o) : l \in ProbeLists(n - 1), o \in ProbeOutcomes}

\* an entry of a model directory holding at most n cloned files
SpeakerEntries(n) ==
  { [kind |-> "absent", probes |-> <<>>], [kind |-> "file", probes |-> <<>>] }
    \cup { [kind |-> "dir", probes |-> l] : l \in UNION {ProbeLists(k) : k \in 0..n} }

\* the lists of i entries holding at most n cloned files together
RECURSIVE EntryLists(_, _)
EntryLists(i, n) ==
  IF i = 0 THEN {<<>>}
  ELSE UNION { {Append(t, e) : t \in EntryLists(i - 1, n - Len(e.probes))}
               : e \in SpeakerEntries(n) }

\* the trees below data_dir: model -> [kind, speakers: speaker -> entry]
Trees ==
  { [m \in Range(ModelNames) |->
       [kind |-> kinds[IndexOf(ModelNames, m)],
        speakers |-> [sp \in Range(SpeakerNames) |->
          entries[(IndexOf(ModelNames, m) - 1) * Len(SpeakerNames)
                    + IndexOf(SpeakerNames, sp)]]]] :
      kinds \in [1..Len(ModelNames) -> {"absent", "file", "dir"}],
      entries \in EntryLists(Len(ModelNames) * Len(SpeakerNames), MaxProbes) }

\* only a directory has entries
WellFormedTree(t) ==
  \A m \in DOMAIN t :
    t[m].kind # "dir" => \A sp \in DOMAIN t[m].speakers : t[m].speakers[sp].kind = "absent"

AggInit ==
  /\ data_kind \in {"dir", "file", "missing"}
  /\ tree \in {t \in Trees : WellFormedTree(t)}
  /\ data_kind # "dir" => \A m \in DOMAIN tree : tree[m].kind = "absent"
  /\ agpc = "open"
  /\ model_queue = <<>> /\ model_name = "" /\ speaker_queue = <<>>
  /\ speaker_name = "" /\ probe_index = 1 /\ embedded = {}
  /\ opened_files = {} /\ detail_rows = <<>> /\ log_warnings = <<>>
  /\ speaker_scores_for_stats = <<>> /\ model_scores_for_stats = <<>>
  /\ speaker_stats_rows = <<>> /\ model_stats_rows = <<>>
  /\ agg_outcome = "running"
  /\ SelIdle /\ JoinIdle /\ ExtIdle /\ RefIdle /\ ExpIdle /\ MergeIdle
  /\ LegacyIdle

\* the entries os.listdir returns, in its order
ListDir(entries, order) ==
  SelectSeq(order, LAMBDA name : entries[name].kind # "absent")

OutputFiles ==
  {"output_csv_file", "output_log_file", "output_speaker_stats_file",
   "output_model_stats_file"}

\* a list of scores, and what replaces it once the statistic is computed:
\* the text made from the mean and the bootstrap interval of the pool, or N/A
ScoreList(scores) == [kind |-> "list", pool |-> scores]
MeanText(scores) == [kind |-> "mean", pool |-> scores]
NotAvailable == [kind |-> "N/A", pool |-> <<>>]

\* a cell of the detail table: a number, or the text "Error"
NumberCell(n) == [text |-> "", number |-> n]
ErrorCell == [text |-> "Error", number |-> 0]

\* scipy.stats.bootstrap rejects a sample with fewer than two observations
\* with ValueError
BootstrapAccepts(scores) == Len(scores) >= 2

\* the four output files are opened for writing, the detail header is written
AggOpen ==
  /\ agpc = "open"
  /\ opened_files' = OutputFiles
  /\ detail_rows' = <<>>
  /\ speaker_scores_for_stats' = <<>>
  /\ model_scores_for_stats' = <<>>
  /\ agpc' = "listdir"
  /\ UNCHANGED <<aggParams, model_queue, model_name, speaker_queue, speaker_name,
                 probe_index, embedded, log_warnings, speaker_stats_rows,
                 model_stats_rows, agg_outcome>>
  /\ UNCHANGED exceptAgg

\* for model_name in os.listdir(data_dir): the listing
AggListModels ==
  /\ agpc = "listdir"
  /\ IF data_kind = "dir"
     THEN /\ model_queue' = ListDir(tree, ModelNames)
          /\ agpc' = "model"
          /\ UNCHANGED agg_outcome
     ELSE /\ agg_outcome' = IF data_kind = "missing" THEN "FileNotFoundError"
                            ELSE "NotADirectoryError"
          /\ agpc' = "done"
          /\ UNCHANGED model_queue
  /\ UNCHANGED <<aggParams, model_name, speaker_queue, speaker_name, probe_index,
                 embedded, opened_files, detail_rows, log_warnings,
                 speaker_scores_for_stats, model_scores_for_stats,
                 speaker_stats_rows, model_stats_rows>>
  /\ UNCHANGED exceptAgg

\* the head of the for loop over the entries of data_dir
AggModelStep ==
  /\ agpc = "model"
  /\ IF model_queue = <<>>
     THEN /\ agpc' = "stats"
          /\ UNCHANGED <<model_queue, model_name, speaker_queue,
                         speaker_scores_for_stats, model_scores_for_stats>>
     ELSE /\ model_queue' = Tail(model_queue)
          /\ model_name' = Head(model_queue)
          /\ IF tree[Head(model_queue)].kind # "dir"
             THEN /\ agpc' = "model"
                  /\ UNCHANGED <<speaker_queue, speaker_scores_for_stats,
                                 model_scores_for_stats>>
             ELSE /\ model_scores_for_stats' =
                       (Head(model_queue) :> ScoreList(<<>>)) @@ model_scores_for_stats
                  /\ speaker_scores_for_stats' =
                       (Head(model_queue) :> <<>>) @@ speaker_scores_for_stats
                  /\ speaker_queue' = ListDir(tree[Head(model_queue)].speakers, SpeakerNames)
                  /\ agpc' = "speaker"
  /\ UNCHANGED <<aggParams, speaker_name, probe_index, embedded, opened_files,
                 detail_rows, log_warnings, speaker_stats_rows, model_stats_rows,
                 agg_outcome>>
  /\ UNCHANGED exceptAgg

\* the head of the for loop over the entries of the model directory
AggSpeakerStep ==
  /\ agpc = "speaker"
  /\ IF speaker_queue = <<>>
     THEN /\ agpc' = "model_stats"
          /\ UNCHANGED <<speaker_queue, speaker_name, probe_index,
                         speaker_scores_for_stats>>
     ELSE /\ speaker_queue' = Tail(speaker_queue)
          /\ speaker_name' = Head(speaker_queue)
          /\ IF tree[model_name].speakers[Head(speaker_queue)].kind # "dir"
             THEN /\ agpc' = "speaker"
                  /\ UNCHANGED <<probe_index, speaker_scores_for_stats>>
             ELSE /\ speaker_scores_for_stats' =
                       [speaker_scores_for_stats EXCEPT ![model_name] =
                          (Head(speaker_queue) :> ScoreList(<<>>)) @@ @]
                  /\ probe_index' = 1
                  /\ agpc' = "probe"
  /\ UNCHANGED <<aggParams, model_queue, model_name, embedded, opened_files,
                 detail_rows, log_warnings, model_scores_for_stats,
                 speaker_stats_rows, model_stats_rows, agg_outcome>>
  /\ UNCHANGED exceptAgg

\* the cloned files of the speaker directory under the current model
Probes == tree[model_name].speakers[speaker_name].probes

\* variant: the reference file is not looked for
ReferenceExists_NotChecked(probe) == TRUE

\* os.path.exists(ref_wav_path)
ReferenceExists(probe) == probe.kind # "noref"

\* variant: the scores of the previous pair are not reset to "Error"
PairScores_KeepsLast(probe, previous) ==
  IF probe.kind = "scores"
  THEN <<NumberCell(probe.cosine), NumberCell(probe.euclidean)>>
  ELSE previous

\* cosine_sim_score, euclidean_dist_score: "Error", "Error" unless
\* compute_similarity returns a pair
PairScores(probe, previous) ==
  IF probe.kind = "scores"
  THEN <<NumberCell(probe.cosine), NumberCell(probe.euclidean)>>
  ELSE <<ErrorCell, ErrorCell>>

\* isinstance(cosine_sim_score, (float, int))
IsNumber(cell) == cell.text = ""

\* one iteration of the for loop over the cloned files of the speaker
AggProbeStep ==
  /\ agpc = "probe"
  /\ IF probe_index > Len(Probes)
     THEN /\ agpc' = "speaker_stats"
          /\ UNCHANGED <<probe_index, embedded, detail_rows, log_warnings,
                         speaker_scores_for_stats, model_scores_for_stats>>
     ELSE LET probe == Probes[probe_index]
              cloned_wav_path == <<model_name, speaker_name, probe_index>>
              previous == IF detail_rows = <<>> THEN <<ErrorCell, ErrorCell>>
                          ELSE << detail_rows[Len(detail_rows)].cosine_similarity,
                                  detail_rows[Len(detail_rows)].euclidean_similarity >>
              scores == PairScores(probe, previous)
          IN  /\ probe_index' = probe_index + 1
              /\ agpc' = "probe"
              /\ IF probe.kind = "notwav"
                 THEN UNCHANGED <<embedded, detail_rows, log_warnings,
                                  speaker_scores_for_stats, model_scores_for_stats>>
                 ELSE IF ~ReferenceExists(probe)
                 THEN /\ log_warnings' = Append(log_warnings, cloned_wav_path)
                      /\ UNCHANGED <<embedded, detail_rows, speaker_scores_for_stats,
                                     model_scores_for_stats>>
                 ELSE /\ embedded' = embedded \cup {cloned_wav_path}
                      /\ IF probe.kind = "scores" /\ IsNumber(scores[1])
                         THEN /\ speaker_scores_for_stats' =
                                   [speaker_scores_for_stats EXCEPT ![model_name][speaker_name] =
                                      ScoreList(Append(@.pool, scores[1].number))]
                              /\ model_scores_for_stats' =
                                   [model_scores_for_stats EXCEPT ![model_name] =
                                      ScoreList(Append(@.pool, scores[1].number))]
                         ELSE UNCHANGED <<speaker_scores_for_stats, model_scores_for_stats>>
                      /\ detail_rows' = Append(detail_rows,
                           [model |-> model_name, speaker |-> speaker_name,
                            cloned_wav |-> cloned_wav_path,
                            cosine_similarity |-> scores[1],
                            euclidean_similarity |-> scores[2]])
                      /\ UNCHANGED log_warnings
  /\ UNCHANGED <<aggParams, model_queue, model_name, speaker_queue, speaker_name,
                 opened_files, speaker_stats_rows, model_stats_rows, agg_outcome>>
  /\ UNCHANGED exceptAgg

\* variant: the statistic of an empty list is computed like any other
Statistic_OfEmptyToo(scores) == MeanText(scores)

\* the statistic that replaces a list of scores; bootstrap is called on
\* every non-empty list
Statistic(scores) == IF scores = <<>> THEN NotAvailable ELSE MeanText(scores)

\* the statistic fails when bootstrap rejects the list
StatisticRaises(scores) == scores # <<>> /\ ~BootstrapAccepts(scores)

\* the statistics of the current speaker, behind the loop over its files
AggSpeakerStats ==
  /\ agpc = "speaker_stats"
  /\ LET current_speaker_scores == speaker_scores_for_stats[model_name][speaker_name].pool
     IN  IF StatisticRaises(current_speaker_scores)
         THEN /\ agg_outcome' = "ValueError"
              /\ agpc' = "done"
              /\ UNCHANGED speaker_scores_for_stats
         ELSE /\ speaker_scores_for_stats' =
                   [speaker_scores_for_stats EXCEPT ![model_name][speaker_name] =
                      Statistic(current_speaker_scores)]
              /\ agpc' = "speaker"
              /\ UNCHANGED agg_outcome
  /\ UNCHANGED <<aggParams, model_queue, model_name, speaker_queue, speaker_name,
                 probe_index, embedded, opened_files, detail_rows, log_warnings,
                 model_scores_for_stats, speaker_stats_rows, model_stats_rows>>
  /\ UNCHANGED exceptAgg

\* the statistics of the current model, behind the loop over its speakers
AggModelStats ==
  /\ agpc = "model_stats"
  /\ LET current_model_scores == model_scores_for_stats[model_name].pool
     IN  IF StatisticRaises(current_model_scores)
         THEN /\ agg_outcome' = "ValueError"
              /\ agpc' = "done"
              /\ UNCHANGED model_scores_for_stats
         ELSE /\ model_scores_for_stats' =
                   [model_scores_for_stats EXCEPT ![model_name] =
                      Statistic(current_model_scores)]
              /\ agpc' = "model"
              /\ UNCHANGED agg_outcome
  /\ UNCHANGED <<aggParams, model_queue, model_name, speaker_queue, speaker_name,
                 probe_index, embedded, opened_files, detail_rows, log_warnings,
                 speaker_scores_for_stats, speaker_stats_rows, model_stats_rows>>
  /\ UNCHANGED exceptAgg

\* the keys of a dict in the order they were inserted
KeysInOrder(dict, order) == SelectSeq(order, LAMBDA name : name \in DOMAIN dict)

\* the rows of the speaker statistics: for every model, for every speaker
RECURSIVE SpeakerRows(_, _)
SpeakerRows(dict, models) ==
  IF models = <<>> THEN <<>>
  ELSE LET m == Head(models)
           speakers == KeysInOrder(dict[m], SpeakerNames)
       IN  [i \in 1..Len(speakers) |->
              [Model |-> m, Speaker |-> speakers[i], Mean |-> dict[m][speakers[i]]]]
             \o SpeakerRows(dict, Tail(models))

\* the two statistics tables are written and the function returns
AggWriteStats ==
  /\ agpc = "stats"
  /\ speaker_stats_rows' =
       SpeakerRows(speaker_scores_for_stats,
                   KeysInOrder(speaker_scores_for_stats, ModelNames))
  /\ model_stats_rows' =
       LET models == KeysInOrder(model_scores_for_stats, ModelNames)
       IN  [i \in 1..Len(models) |->
              [Model |-> models[i], Mean |-> model_scores_for_stats[models[i]]]]
  /\ agg_outcome' = "returned"
  /\ agpc' = "done"
  /\ UNCHANGED <<aggParams, model_queue, model_name, speaker_queue, speaker_name,
                 probe_index, embedded, opened_files, detail_rows, log_warnings,
                 speaker_scores_for_stats, model_scores_for_stats>>
  /\ UNCHANGED exceptAgg

AggNext ==
  \/ AggOpen
  \/ AggListModels
  \/ AggModelStep
  \/ AggSpeakerStep
  \/ AggProbeStep
  \/ AggSpeakerStats
  \/ AggModelStats
  \/ AggWriteStats

AggSpec == AggInit /\ [][AggNext]_vars

(***************************************************************************)
(* Properties of the aggregation.                                          *)
(***************************************************************************)
\* the outcome of the cloned file <<model, speaker, index>>
ProbeAt(id) == tree[id[1]].speakers[id[2]].probes[id[3]]

\* the cosine similarities of the pairs compute_similarity returns scores for
ValidCosines(probes) ==
  LET valid == SelectSeq(probes, LAMBDA p : p.kind = "scores")
  IN  [i \in 1..Len(valid) |-> valid[i].cosine]

\* the loop over the cloned files of a speaker is running or has just ended
InSpeaker == agpc \in {"probe", "speaker_stats"}

\* the cloned files of the current speaker the loop has passed
Passed == 1..(probe_index - 1)

\* C21: a cloned file without reference file is logged and skipped: it is
\* not embedded, adds nothing to the speaker's or the model's scores, does
\* not end the run, and the files after it are still processed.
C21_MissingReferenceSkipped ==
  /\ \A i \in 1..Len(log_warnings) :
       /\ ProbeAt(log_warnings[i]).kind = "noref"
       /\ log_warnings[i] \notin embedded
  /\ \A id \in embedded : ProbeAt(id).kind # "noref"
  /\ InSpeaker =>
       /\ speaker_scores_for_stats[model_name][speaker_name].pool
            = ValidCosines(SubSeq(Probes, 1, probe_index - 1))
       /\ Len(model_scores_for_stats[model_name].pool)
            = Cardinality({id \in embedded :
                             id[1] = model_name /\ ProbeAt(id).kind = "scores"})
       /\ \A i \in Passed :
            /\ Probes[i].kind = "noref" =>
                 /\ <<model_name, speaker_name, i>> \in Range(log_warnings)
                 /\ agg_outcome = "running"
            /\ Probes[i].kind \in {"None", "scores"} =>
                 <<model_name, speaker_name, i>> \in embedded
  /\ agpc = "speaker_stats" => probe_index = Len(Probes) + 1

\* a file without reference is followed by one that is compared
C21_Witness ==
  /\ agpc = "speaker_stats"
  /\ Len(Probes) = 2
  /\ Probes[1].kind = "noref"
  /\ Probes[2].kind = "scores"
  /\ log_warnings = << <<model_name, speaker_name, 1>> >>
  /\ embedded = { <<model_name, speaker_name, 2>> }
  /\ speaker_scores_for_stats[model_name][speaker_name].pool = <<1>>

\* the detail rows written for a cloned file
RowsOf(id) == {i \in 1..Len(detail_rows) : detail_rows[i].cloned_wav = id}

\* C22: a pair whose comparison fails still gets its detail row, with
\* "Error" as cosine and as euclidean similarity; it adds no value to the
\* speaker's or the model's scores, and the loop goes on with the next file.
C22_FailedPairRecordedNotPooled ==
  /\ \A id \in embedded : Cardinality(RowsOf(id)) = 1
  /\ \A i \in 1..Len(detail_rows) :
       ProbeAt(detail_rows[i].cloned_wav).kind = "None" =>
         /\ detail_rows[i].cosine_similarity = ErrorCell
         /\ detail_rows[i].euclidean_similarity = ErrorCell
  /\ InSpeaker =>
       /\ Len(speaker_scores_for_stats[model_name][speaker_name].pool)
            = Cardinality({i \in Passed : Probes[i].kind = "scores"})
       /\ Len(model_scores_for_stats[model_name].pool)
            = Cardinality({i \in 1..Len(detail_rows) :
                 /\ detail_rows[i].model = model_name
                 /\ ProbeAt(detail_rows[i].cloned_wav).kind = "scores"})
       /\ \A i \in Passed :
            Probes[i].kind = "None" =>
              /\ <<model_name, speaker_name, i>> \in embedded
              /\ agg_outcome = "running"

\* a compared pair is followed by a pair whose comparison fails
C22_Witness ==
  /\ agpc = "speaker_stats"
  /\ Len(Probes) = 2
  /\ Probes[1].kind = "scores"
  /\ Probes[2].kind = "None"
  /\ Len(detail_rows) = 2
  /\ detail_rows[1].cosine_similarity = NumberCell(1)
  /\ detail_rows[2].cosine_similarity = ErrorCell
  /\ detail_rows[2].euclidean_similarity = ErrorCell
  /\ speaker_scores_for_stats[model_name][speaker_name].pool = <<1>>
  /\ model_scores_for_stats[model_name].pool = <<1>>

\* the directories below data_dir, and the speaker directories below them
ModelDirs == {m \in DOMAIN tree : tree[m].kind = "dir"}
SpeakerDirs(m) == {sp \in DOMAIN tree[m].speakers : tree[m].speakers[sp].kind = "dir"}

\* how often a value occurs in a list
CountIn(list, v) == Cardinality({i \in 1..Len(list) : list[i] = v})

\* how often a value occurs among the valid cosine similarities of the
\* speakers of a model
CountUnder(m, v) ==
  LET Sum[S \in SUBSET SpeakerDirs(m)] ==
        IF S = {} THEN 0
        ELSE LET sp == CHOOSE x \in S : TRUE
             IN  CountIn(ValidCosines(tree[m].speakers[sp].probes), v) + Sum[S \ {sp}]
  IN  Sum[SpeakerDirs(m)]

AggEnded == agpc = "done" /\ data_kind = "dir"

\* C23: the model statistic is made from the valid cosine similarities of
\* all speakers of the model, each as often as it occurs, and the run emits
\* an entry for every (model, speaker) directory and for every model
\* directory.
C23_TwoLevelStatisticsEmitted ==
  AggEnded =>
    /\ \A m \in ModelDirs :
         /\ \E i \in 1..Len(model_stats_rows) :
              /\ model_stats_rows[i].Model = m
              /\ \A v \in {0, 1} :
                   CountIn(model_stats_rows[i].Mean.pool, v) = CountUnder(m, v)
         /\ \A sp \in SpeakerDirs(m) :
              \E i \in 1..Len(speaker_stats_rows) :
                /\ speaker_stats_rows[i].Model = m
                /\ speaker_stats_rows[i].Speaker = sp

\* the statistic the group of a speaker directory gets
ExpectedStatistic(m, sp) ==
  IF ValidCosines(tree[m].speakers[sp].probes) = <<>> THEN NotAvailable
  ELSE MeanText(ValidCosines(tree[m].speakers[sp].probes))

\* C24: a group without valid cosine similarity gets N/A as its statistic,
\* mean and bootstrap are computed for the other groups only, and the run
\* never ends in the statistics of an empty group.
C24_EmptyGroupNotAvailable ==
  /\ \A m \in DOMAIN speaker_scores_for_stats :
       \A sp \in DOMAIN speaker_scores_for_stats[m] :
         speaker_scores_for_stats[m][sp].kind # "list" =>
           speaker_scores_for_stats[m][sp] = ExpectedStatistic(m, sp)
  /\ \A m \in DOMAIN model_scores_for_stats :
       /\ model_scores_for_stats[m].kind = "N/A" => \A v \in {0, 1} : CountUnder(m, v) = 0
       /\ model_scores_for_stats[m].kind = "mean" => model_scores_for_stats[m].pool # <<>>
  /\ agg_outcome = "ValueError" =>
       \/ speaker_scores_for_stats[model_name][speaker_name].pool # <<>>
       \/ model_scores_for_stats[model_name].pool # <<>>

\* a speaker without cloned file below a model with two compared pairs
C24_Witness ==
  /\ agpc = "done"
  /\ agg_outcome = "returned"
  /\ \E m \in ModelDirs :
       /\ \E sp \in SpeakerDirs(m) : speaker_scores_for_stats[m][sp] = NotAvailable
       /\ model_scores_for_stats[m] = MeanText(<<1, 1>>)
  /\ \E m \in ModelDirs : model_scores_for_stats[m] = NotAvailable

\* C25: when data_dir is missing or not a directory the aggregation fails
\* without having created or truncated any of its four output files.
C25_FailsBeforeAnyOutput ==
  (agpc # "idle" /\ data_kind # "dir") =>
    /\ opened_files = {}
    /\ agpc = "done" => agg_outcome \in {"FileNotFoundError", "NotADirectoryError"}

(***************************************************************************)
(* export_dict_to_csv (audioprocessing/io_utils.py) and the reading back   *)
(* of its file with csv.reader(delimiter='\t', quotechar='|').  A text is  *)
(* a sequence of one-character strings; the file is the list of its lines. *)
(***************************************************************************)
MaxEntries == 2

TAB == "\t"
BAR == "|"

\* the keys of the dict: texts without and with the characters the writer
\* quotes
KeyTexts == { <<"a">>, <<TAB>>, <<"a", BAR>>, <<>> }

\* the values of a dict entry: numbers and texts
IntValue(n) == [kind |-> "int", n |-> n, text |-> <<>>]
FloatValue(tenths) == [kind |-> "float", n |-> tenths, text |-> <<>>]
StrValue(t) == [kind |-> "str", n |-> 0, text |-> t]

\* the value lists of a dict entry; a value that is not a list is a list
\* marked as scalar
ValueLists ==
  { [scalar |-> FALSE, list |-> <<IntValue(10), FloatValue(45)>>],
    [scalar |-> FALSE, list |-> <<IntValue(10), StrValue(<<"E", "r", "r">>)>>],
    [scalar |-> FALSE, list |-> <<StrValue(<<"a", TAB>>), StrValue(<<BAR, "a">>)>>],
    [scalar |-> FALSE, list |-> <<StrValue(<<>>)>>],
    [scalar |-> FALSE, list |-> <<>>],
    [scalar |-> TRUE, list |-> <<FloatValue(45)>>] }

\* the dicts with n entries, as lists of items with different keys
RECURSIVE DictsOfLen(_)
DictsOfLen(n) ==
  IF n = 0 THEN {<<>>}
  ELSE { Append(d, [key |-> k, value |-> v]) :
           d \in DictsOfLen(n - 1),
           k \in KeyTexts, v \in ValueLists }

UniqueDictKeys(d) == \A i, j \in 1..Len(d) : d[i].key = d[j].key => i = j

\* headers=None, or a list of column names
NoHeaders == [given |-> FALSE, list |-> <<>>]
HeaderArgs ==
  { NoHeaders,
    [given |-> TRUE, list |-> << <<"K">>, <<"L">>, <<"S">> >>],
    [given |-> TRUE, list |-> << <<"K", TAB>>, <<BAR>> >>] }

ExpInit ==
  /\ dictionary \in {d \in UNION {DictsOfLen(n) : n \in 0..MaxEntries} : UniqueDictKeys(d)}
  /\ headers \in HeaderArgs
  /\ xpc = "export"
  /\ csv_file = <<>> /\ read_headers = <<>> /\ read_data = <<>>
  /\ SelIdle /\ JoinIdle /\ ExtIdle /\ RefIdle /\ AggIdle /\ MergeIdle
  /\ LegacyIdle

Digits == <<"0", "1", "2", "3", "4", "5", "6", "7", "8", "9">>

\* str() of a non-negative int
RECURSIVE IntText(_)
IntText(n) ==
  IF n < 10 THEN <<Digits[n + 1]>>
  ELSE IntText(n \div 10) \o <<Digits[(n % 10) + 1]>>

\* the text csv.writer writes for a value: str() of a number (a float with
\* one decimal is given in tenths), a string as it is
FieldText(v) ==
  IF v.kind = "str" THEN v.text
  ELSE IF v.kind = "int" THEN IntText(v.n)
  ELSE IntText(v.n \div 10) \o <<".">> \o <<Digits[(v.n % 10) + 1]>>

\* the quote character is written twice inside a quoted field
RECURSIVE DoubledQuotes(_)
DoubledQuotes(field) ==
  IF field = <<>> THEN <<>>
  ELSE (IF Head(field) = BAR THEN <<BAR, BAR>> ELSE <<Head(field)>>)
         \o DoubledQuotes(Tail(field))

\* variant: no field is quoted
WriteField_NeverQuoted(field, alone) == field

\* QUOTE_MINIMAL: a field is quoted when it holds the delimiter, the quote
\* character or a line end, or when it is empty and alone in its row
WriteField(field, alone) ==
  IF \/ \E i \in 1..Len(field) : field[i] \in {TAB, BAR, "\r", "\n"}
     \/ field = <<>> /\ alone
  THEN <<BAR>> \o DoubledQuotes(field) \o <<BAR>>
  ELSE field

\* writer.writerow(fields), without the line end
RECURSIVE JoinFields(_)
JoinFields(fields) ==
  IF fields = <<>> THEN <<>>
  ELSE IF Len(fields) = 1 THEN Head(fields)
  ELSE Head(fields) \o <<TAB>> \o JoinFields(Tail(fields))

WriteRow(fields) ==
  JoinFields([i \in 1..Len(fields) |-> WriteField(fields[i], Len(fields) = 1)])

\* the states of csv.reader on one line, from position i on
RECURSIVE ReadFrom(_, _, _, _, _)
ReadFrom(line, i, state, field, fields) ==
  IF i > Len(line)
  THEN Append(fields, field)
  ELSE LET c == line[i]
       IN  IF state = "START_FIELD"
           THEN IF c = BAR THEN ReadFrom(line, i + 1, "IN_QUOTED_FIELD", <<>>, fields)
                ELSE IF c = TAB THEN ReadFrom(line, i + 1, "START_FIELD", <<>>, Append(fields, <<>>))
                ELSE ReadFrom(line, i + 1, "IN_FIELD", <<c>>, fields)
           ELSE IF state = "IN_FIELD"
           THEN IF c = TAB THEN ReadFrom(line, i + 1, "START_FIELD", <<>>, Append(fields, field))
                ELSE ReadFrom(line, i + 1, "IN_FIELD", Append(field, c), fields)
           ELSE IF state = "IN_QUOTED_FIELD"
           THEN IF c = BAR THEN ReadFrom(line, i + 1, "QUOTE_IN_QUOTED_FIELD", field, fields)
                ELSE ReadFrom(line, i + 1, "IN_QUOTED_FIELD", Append(field, c), fields)
           ELSE IF c = BAR THEN ReadFrom(line, i + 1, "IN_QUOTED_FIELD", Append(field, c), fields)
                ELSE IF c = TAB THEN ReadFrom(line, i + 1, "START_FIELD", <<>>, Append(fields, field))
                ELSE ReadFrom(line, i + 1, "IN_FIELD", Append(field, c), fields)

\* a row of csv.reader(delimiter='\t', quotechar='|'); an empty line is an
\* empty row
ReadRow(line) ==
  IF line = <<>> THEN <<>> ELSE ReadFrom(line, 1, "START_FIELD", <<>>, <<>>)

\* final_headers
FinalHeaders ==
  IF ~headers.given
  THEN << <<"P", "a", "t", "h">>, <<"D", "u", "r", "a", "t", "i", "o", "n">>,
          <<"M", "O", "S">> >>
  ELSE headers.list

\* [key] + list(value_list), as the texts written
ExportedRow(item) ==
  <<item.key>> \o [i \in 1..Len(item.value.list) |-> FieldText(item.value.list[i])]

\* the header and one row for every item are written
ExportWrite ==
  /\ xpc = "export"
  /\ csv_file' = <<WriteRow(FinalHeaders)>>
                   \o [i \in 1..Len(dictionary) |-> WriteRow(ExportedRow(dictionary[i]))]
  /\ xpc' = "written"
  /\ UNCHANGED <<dictionary, headers, read_headers, read_data>>
  /\ UNCHANGED exceptExp

\* read_headers = next(reader); read_data = list(reader)
ExportReadBack ==
  /\ xpc = "written"
  /\ read_headers' = ReadRow(csv_file[1])
  /\ read_data' = [i \in 1..(Len(csv_file) - 1) |-> ReadRow(csv_file[i + 1])]
  /\ xpc' = "read"
  /\ UNCHANGED <<dictionary, headers, csv_file>>
  /\ UNCHANGED exceptExp

ExpNext ==
  \/ ExportWrite
  \/ ExportReadBack

ExportSpec == ExpInit /\ [][ExpNext]_vars

MergeInit ==
  /\ fichier_csv1 \in JoinFiles(Headers1)
  /\ fichier_csv2 \in JoinFiles(Headers2)
  /\ colonne_cle = "Path"
  /\ mpc = "read"
  /\ lignes1 = <<>> /\ lignes2 = <<>> /\ key1 = -1 /\ key2 = -1
  /\ ligne1_index = 1 /\ merged_data = <<>> /\ match = 0
  /\ merged_file = NoFile /\ merge_outcome = "running"
  /\ SelIdle /\ JoinIdle /\ ExtIdle /\ RefIdle /\ AggIdle /\ ExpIdle
  /\ LegacyIdle

\* list[k] does not raise IndexError
ValidIndex(list, k) == -Len(list) <= k /\ k < Len(list)

\* the position of list[k], counted from 1
Position(list, k) == IF k >= 0 THEN k + 1 ELSE Len(list) + k + 1

\* list[k]
ItemAt(list, k) == list[Position(list, k)]

\* the list after del list[k]
Deleted(list, k) ==
  SubSeq(list, 1, Position(list, k) - 1) \o SubSeq(list, Position(list, k) + 1, Len(list))

\* the loop of resolve_header over one header: the index of the last column
\* named colonne_cle, -1 if there is none
HeaderIndex(header, column) ==
  LET hits == {i \in 1..Len(header) : header[i] = column}
  IN  IF hits = {} THEN -1 ELSE (CHOOSE i \in hits : \A j \in hits : j <= i) - 1

\* both files are read, header line included
MergeRead ==
  /\ mpc = "read"
  /\ lignes1' = <<fichier_csv1.header>> \o fichier_csv1.rows
  /\ lignes2' = <<fichier_csv2.header>> \o fichier_csv2.rows
  /\ mpc' = "resolve"
  /\ UNCHANGED <<fichier_csv1, fichier_csv2, colonne_cle, key1, key2, ligne1_index,
                 merged_data, match, merged_file, merge_outcome>>
  /\ UNCHANGED exceptMerge

\* resolve_header: both tests behind the loops are "h1 == -1"
MergeResolveHeader ==
  /\ mpc = "resolve"
  /\ LET h1 == HeaderIndex(lignes1[1], colonne_cle)
         h2 == HeaderIndex(lignes2[1], colonne_cle)
     IN  IF h1 = -1
         THEN /\ merge_outcome' = "exit"
              /\ mpc' = "done"
              /\ UNCHANGED <<key1, key2>>
         ELSE IF h1 = -1
         THEN /\ merge_outcome' = "exit"
              /\ mpc' = "done"
              /\ UNCHANGED <<key1, key2>>
         ELSE /\ key1' = h1
              /\ key2' = h2
              /\ mpc' = "rows"
              /\ UNCHANGED merge_outcome
  /\ UNCHANGED <<fichier_csv1, fichier_csv2, colonne_cle, lignes1, lignes2,
                 ligne1_index, merged_data, match, merged_file>>
  /\ UNCHANGED exceptMerge

\* the inner loop stops at the first ligne2 whose comparison raises
\* IndexError or finds the keys equal
Stops(ligne1, ligne2) ==
  \/ ~ValidIndex(ligne1, key1)
  \/ ~ValidIndex(ligne2, key2)
  \/ ItemAt(ligne1, key1) = ItemAt(ligne2, key2)

\* one iteration of the outer loop: tmp = ligne2 names the list in lignes2,
\* del tmp[key2] shortens it there
MergeRowStep ==
  /\ mpc = "rows"
  /\ IF ligne1_index > Len(lignes1)
     THEN /\ mpc' = "write"
          /\ UNCHANGED <<lignes2, ligne1_index, merged_data, match, merge_outcome>>
     ELSE LET ligne1 == lignes1[ligne1_index]
              stops == {j \in 1..Len(lignes2) : Stops(ligne1, lignes2[j])}
              first == CHOOSE j \in stops : \A k \in stops : j <= k
          IN  IF stops = {}
              THEN /\ ligne1_index' = ligne1_index + 1
                   /\ mpc' = "rows"
                   /\ UNCHANGED <<lignes2, merged_data, match, merge_outcome>>
              ELSE IF ~ValidIndex(ligne1, key1) \/ ~ValidIndex(lignes2[first], key2)
              THEN /\ merge_outcome' = "IndexError"
                   /\ mpc' = "done"
                   /\ UNCHANGED <<lignes2, ligne1_index, merged_data, match>>
              ELSE /\ match' = match + 1
                   /\ lignes2' = [lignes2 EXCEPT ![first] = Deleted(@, key2)]
                   /\ merged_data' = Append(merged_data, ligne1 \o Deleted(lignes2[first], key2))
                   /\ ligne1_index' = ligne1_index + 1
                   /\ mpc' = "rows"
                   /\ UNCHANGED merge_outcome
  /\ UNCHANGED <<fichier_csv1, fichier_csv2, colonne_cle, lignes1, key1, key2,
                 merged_file>>
  /\ UNCHANGED exceptMerge

\* writer.writerows(resulting_data)
MergeWrite ==
  /\ mpc = "write"
  /\ merged_file' = [exists |-> TRUE, header |-> <<>>, rows |-> merged_data]
  /\ merge_outcome' = "returned"
  /\ mpc' = "done"
  /\ UNCHANGED <<fichier_csv1, fichier_csv2, colonne_cle, lignes1, lignes2, key1,
                 key2, ligne1_index, merged_data, match>>
  /\ UNCHANGED exceptMerge

MergeNext ==
  \/ MergeRead
  \/ MergeResolveHeader
  \/ MergeRowStep
  \/ MergeWrite

MergeSpec == MergeInit /\ [][MergeNext]_vars

\* C27: when the key column is absent from the header of the second file
\* the merge script ends with an error and writes no merged file, as it does
\* when the column is absent from the first.
C27_MergeScriptMissingKeyFails ==
  (mpc = "done" /\ colonne_cle \notin Range(fichier_csv2.header)) =>
    /\ merge_outcome = "exit"
    /\ ~merged_file.exists

\* C28: while the output is built the rows read from both files keep their
\* contents, so a row of the second file matched once is intact when a later
\* row of the first file with the same key is compared with it.
C28_InputRowsNotMutated ==
  mpc \in {"resolve", "rows", "write", "done"} =>
    /\ lignes1 = <<fichier_csv1.header>> \o fichier_csv1.rows
    /\ lignes2 = <<fichier_csv2.header>> \o fichier_csv2.rows

(***************************************************************************)
(* utils/select_best_samples.py: filter_and_save_csv, run on the same      *)
(* table and budget as the package selector.  The table has the columns    *)
(* MOS and Duration (the script has no check for them).                    *)
(***************************************************************************)
RECURSIVE LegacyTablesOfLen(_)
LegacyTablesOfLen(n) ==
  IF n = 0 THEN {<<>>}
  ELSE {Append(t, <<RowKeys[n], m, d>>) :
          t \in LegacyTablesOfLen(n - 1), m \in {"1", "2"}, d \in {"0", "1", "2", "Error"}}

LegacyInputFiles ==
  { [exists |-> TRUE, header |-> <<"K", "MOS", "Duration">>, rows |-> t] :
      t \in UNION { LegacyTablesOfLen(n) : n \in 0..MaxRows } }

LegacyInit ==
  /\ input_csv \in LegacyInputFiles
  /\ score_column_name = "MOS"
  /\ duration_column_name = "Duration"
  /\ size_threshold_ms \in 0..MaxBudget
  /\ sort_descending = TRUE
  /\ pc = "open"
  /\ fieldnames = <<>>
  /\ sorted_rows = <<>>
  /\ idx = 1
  /\ selected_rows = <<>>
  /\ total_duration_ms = Fin(0)
  /\ output_csv = NoFile
  /\ outcome = "running"
  /\ lgpc = "open"
  /\ legacy_output = NoFile
  /\ legacy_outcome = "running"
  /\ JoinIdle /\ ExtIdle /\ RefIdle /\ AggIdle /\ ExpIdle /\ MergeIdle

\* variant: the total must stay strictly under the threshold
LegacyFits_Strict(total_size, current, size_threshold) ==
  FloatLt(FloatAdd(total_size, current), Fin(size_threshold))

\* total_size + float(row['Duration']) <= size_threshold
LegacyFits(total_size, current, size_threshold) ==
  FloatLe(FloatAdd(total_size, current), Fin(size_threshold))

RECURSIVE LegacyLoop(_, _, _)
\* selected_rows and total_size after the first n rows of the loop
LegacyLoop(rows, n, size_threshold) ==
  IF n = 0 THEN [selected_rows |-> <<>>, total_size |-> Fin(0)]
  ELSE LET before == LegacyLoop(rows, n - 1, size_threshold)
           current == ParseFloat(rows[n]["Duration"]).val
       IN IF LegacyFits(before.total_size, current, size_threshold)
          THEN [selected_rows |-> Append(before.selected_rows, rows[n]),
                total_size |-> FloatAdd(before.total_size, current)]
          ELSE before

\* the whole function: read, sort, select, write.  float() raises
\* ValueError on a MOS cell (in the sort) or on a Duration cell (in the
\* loop, which visits every row), and the exception leaves before the
\* output file is opened.  Where every key parses,
\* sorted(reader, key=lambda row: float(row['MOS']), reverse=True) is the
\* sort of the package selector.
LegacySelect ==
  /\ lgpc = "open"
  /\ LET all_rows == [i \in 1..Len(input_csv.rows) |->
                        DictRow(input_csv.header, input_csv.rows[i])]
         raises == \E i \in 1..Len(all_rows) :
                      \/ ~ParseFloat(all_rows[i]["MOS"]).ok
                      \/ ~ParseFloat(all_rows[i]["Duration"]).ok
         result == LegacyLoop(Sorted(all_rows, "MOS", TRUE), Len(all_rows),
                              size_threshold_ms)
     IN IF raises
        THEN /\ legacy_outcome' = "raised"
             /\ UNCHANGED legacy_output
        ELSE /\ legacy_outcome' = "returned"
             /\ legacy_output' =
                  [exists |-> TRUE, header |-> input_csv.header,
                   rows |-> [i \in 1..Len(result.selected_rows) |->
                               ListRow(input_csv.header, result.selected_rows[i])]]
  /\ lgpc' = "done"
  /\ UNCHANGED <<selVars, joinVars, extVars, refVars, aggVars, expVars, mergeVars>>

LegacyNext ==
  \/ LegacySelect
  \/ SelReadAndSort
  \/ SelLoopStep
  \/ SelWrite

LegacySpec == LegacyInit /\ [][LegacyNext]_vars

(***************************************************************************)
(* Properties of the two selectors.                                        *)
(***************************************************************************)
\* both selectors have ended on the same table
BothSelected == lgpc = "done" /\ pc = "done"

\* every MOS and Duration cell of the table parses
AllCellsParse ==
  \A i \in 1..Len(input_csv.rows) :
    /\ ParseFloat(DictRow(input_csv.header, input_csv.rows[i])["MOS"]).ok
    /\ ParseFloat(DictRow(input_csv.header, input_csv.rows[i])["Duration"]).ok

\* the lines of the sorted table, as they would be written
SortedLines == [i \in 1..Len(sorted_rows) |-> ListRow(fieldnames, sorted_rows[i])]

\* a written line whose duration is not above 0
LastsNothing(line) == FloatLe(ParseFloat(line[3]).val, Fin(0))

KeyOf(row) == sort_key(row, score_column_name, sort_descending)

\* the line of the input table a row was read from
InputLine(row) ==
  CHOOSE i \in 1..Len(input_csv.rows) : DictRow(input_csv.header, input_csv.rows[i]) = row

\* rows of equal key stand in the order of their input lines
KeepsInputOrder(rows) ==
  \A i, j \in 1..Len(rows) :
    (i < j /\ KeyOf(rows[i]) = KeyOf(rows[j])) => InputLine(rows[i]) < InputLine(rows[j])

\* the rows are ordered by key in the requested direction
OrderedByKey(rows) ==
  \A i, j \in 1..Len(rows) :
    i < j => IF sort_descending
             THEN ~FloatLt(KeyOf(rows[i]), KeyOf(rows[j]))
             ELSE ~FloatLt(KeyOf(rows[j]), KeyOf(rows[i]))

\* C30: the ranking is stable.  Once the table is sorted, the sorted rows
\* are the input rows, each once, ordered by sort key in the requested
\* direction, and rows of equal key (equal scores, or scores that all fail
\* to parse) stand in the order of the input table, for descending and for
\* ascending order; the selected rows keep that order.  Order by key and
\* stability leave one ranking only, so the selection is determined by the
\* table and the parameters.
C30_RankingStable ==
  (pc \in {"loop", "done"} /\ fieldnames # <<>> /\ outcome # "raised") =>
    /\ Len(sorted_rows) = Len(input_csv.rows)
    /\ \A i \in 1..Len(input_csv.rows) :
         \E j \in 1..Len(sorted_rows) :
           sorted_rows[j] = DictRow(input_csv.header, input_csv.rows[i])
    /\ OrderedByKey(sorted_rows)
    /\ KeepsInputOrder(sorted_rows)
    /\ KeepsInputOrder(selected_rows)

\* an ascending selection wrote a row of score 1 read from the third line,
\* then the two rows of unparsable score in the order of their lines
C30_Witness ==
  /\ SelFinished
  /\ ~sort_descending
  /\ Len(output_csv.rows) = 3
  /\ output_csv.header = <<"K", "MOS", "Duration">>
  /\ output_csv.rows[1][1] = "r3" /\ output_csv.rows[1][2] = "1"
  /\ output_csv.rows[2][1] = "r1" /\ output_csv.rows[2][2] = "Error"
  /\ output_csv.rows[3][1] = "r2" /\ output_csv.rows[3][2] = "Error"

Init == SelInit \/ JoinInit \/ ExtInit \/ RefInit \/ AggInit \/ ExpInit \/ MergeInit
  \/ LegacyInit
Next == SelNext \/ JoinNext \/ ExtNext \/ RefNext \/ AggNext \/ ExpNext \/ MergeNext
  \/ LegacyNext
Spec == Init /\ [][Next]_vars
=============================================================================
